---- MODULE Spec2Model ----
(***************************************************************************)
(* A model of the execution core of the exonum node:                       *)
(*   - the runtime Dispatcher and its builder                              *)
(*       (exonum/src/runtime/dispatcher.rs),                               *)
(*   - the internal event scheduler InternalPart                           *)
(*       (exonum-node/src/events/internal.rs).                             *)
(* Runtimes are trait objects: what a runtime returns, and which Actions   *)
(* it enqueues in the RuntimeContext, are inputs chosen with \E.           *)
(***************************************************************************)
EXTENDS Integers, Sequences, FiniteSets, TLC

\* ------------------------------------------------------------------ bounds

\* The longest Action queue a RuntimeContext holds in the model.
MaxActions == 2
\* The same, where two replicas are run side by side.
MaxReplicaActions == 2
\* The longest queue an execute call that its runtime fails leaves in the
\* context.
MaxLeftover == 1

\* The most InternalRequests the consensus core sends in a run.
MaxRequests == 2
\* The clock runs from 0 to MaxTime.
MaxTime == 1
\* The most requests of a burst of messages to verify with round timeouts
\* among them (BurstWorkload): enough for verification requests on both sides
\* of a Timeout.
MaxBurst == 3

\* ------------------------------------------------------- program constants

RUST_SERVICE_ID == 0
JAVA_SERVICE_ID == 1
\* RustRuntime::ID as u32 (RuntimeIdentifier::Rust), the native runtime's id.
RustRuntimeId == 0
\* RuntimeIdentifier::Java as u32.
JavaRuntimeId == 1

RuntimeIds == {RustRuntimeId, JavaRuntimeId}
InstanceIds == {RUST_SERVICE_ID, JAVA_SERVICE_ID}

\* The runtime objects a caller hands to with_runtime; the builder's own
\* RustRuntime is BuiltinRuntime.
SuppliedRuntimes == {"supplied_runtime"}
\* The two SampleRuntime objects of test_builder, told apart when one replaces
\* the other under the same id.
SampleRuntimes == {"runtime_a", "runtime_b"}
BuiltinRuntime == "builtin_runtime"

\* ------------------------------------------------------------- data model

ArtifactSpec == [runtime_id : RuntimeIds]
ServiceConstructor == [instance_id : InstanceIds]
\* CallInfo's method_id, like the payload, goes to the runtime untouched: what
\* the runtime makes of them is the result it returns, an input of the model.
CallInfo == [instance_id : InstanceIds]

Action ==
    [type : {"StartDeploy"}, artifact : ArtifactSpec]
    \cup [type : {"InitService"}, artifact : ArtifactSpec,
          constructor : ServiceConstructor]

\* Results are tuples: <<"Ok">>, <<"Ok", status>>, or an error with its type.
Ok == <<"Ok">>
DeployWrongRuntime == <<"DeployError", "WrongRuntime">>
InitWrongRuntime == <<"InitError", "WrongRuntime">>
DeployError == {DeployWrongRuntime, <<"DeployError", "DeployFailed">>}
InitError == {InitWrongRuntime, <<"InitError", "InitFailed">>}
DeployStatus == {<<"Ok", "Deployed">>, <<"Ok", "Pending">>}

\* ExecutionError::with_description(WRONG_RUNTIME, "Wrong runtime")
WrongRuntimeError == <<"ExecutionError", "WRONG_RUNTIME", "Wrong runtime">>
\* ExecutionError::new(0xFF_u8), the error SampleRuntime::execute returns
SampleError == <<"ExecutionError", "0xFF", "">>

\* From<DeployError> / From<InitError> for ExecutionError (map_err(From::from)):
\* an ExecutionError that carries the error it was made from.
FromDeployError(e) == <<"ExecutionError", "From">> \o e
FromInitError(e) == <<"ExecutionError", "From">> \o e

\* What a runtime may return from each entry point.
RuntimeDeployResults == {Ok} \cup DeployError
RuntimeStatusResults == DeployStatus \cup DeployError
RuntimeInitResults == {Ok} \cup InitError
RuntimeExecResults == {Ok, SampleError, WrongRuntimeError}
\* The outcome of the runtime call made while an Action is applied: whatever
\* the addressed runtime's start_deploy or init_service returns.
ActionOutcomes(action) ==
    IF action.type = "StartDeploy" THEN RuntimeDeployResults ELSE RuntimeInitResults

\* What a runtime's init_service may append to the context it is given.
InitEnqueues == {<<>>, <<[type |-> "StartDeploy", artifact |-> [runtime_id |-> RustRuntimeId]]>>}

EmptyMap == [x \in {} |-> 0]

Insert(map, key, value) ==
    [x \in (DOMAIN map) \cup {key} |-> IF x = key THEN value ELSE map[x]]

Min(a, b) == IF a < b THEN a ELSE b

SeqsUpTo(S, n) == UNION {[1..k -> S] : k \in 0..n}

RECURSIVE Perms(_)
Perms(S) ==
    IF S = {} THEN {<<>>}
    ELSE UNION {{<<x>> \o p : p \in Perms(S \ {x})} : x \in S}

\* The Action queues of each length up to MaxActions a runtime can enqueue.
ActionQueues == [n \in 0..MaxActions |-> SeqsUpTo(Action, n)]

\* The Actions the transactions run on two nodes enqueue: a deploy, and the
\* initialisation of one instance on either runtime, so that the order in
\* which two Actions are applied shows in runtime_lookup.
ReplicaActions ==
    {[type |-> "StartDeploy", artifact |-> [runtime_id |-> JavaRuntimeId]]}
    \cup [type : {"InitService"}, artifact : ArtifactSpec,
          constructor : {[instance_id |-> JAVA_SERVICE_ID]}]

ReplicaActionQueues ==
    [n \in 0..MaxReplicaActions |-> SeqsUpTo(ReplicaActions, n)]

Call(rid, method) == [runtime |-> rid, method |-> method]

\* ----------------------------------------------------------------- state

VARIABLES
    phase,          \* "building" (DispatcherBuilder) or "ready" (Dispatcher)
    dispatcher,     \* [runtimes, runtime_lookup]
    context,        \* the live RuntimeContext's queue of pending Actions
    owner,          \* history: instance id -> runtime id of its last successful init_service
    last,           \* history: the last dispatcher call, its result and what it invoked
                    \* (sent: the RestartApi requests a direct init_service got through;
                    \* steps: what a direct init_service did, in order; before: the
                    \* dispatcher, context and owners the call started from)
    pending,        \* the dispatcher call that is waiting in send(RestartApi).wait()
    replicas,       \* two nodes' dispatchers, fed the same calls: id -> [phase, self, ctx]
    replies,        \* history: id -> what the replica's last call returned and applied
    internal_requests,  \* the InternalRequests queued for internal_requests_rx
    producer,       \* the request senders: [alive, sent]
    loop,           \* InternalPart::run: [state, cycle, run]
    handled,        \* the requests the loop picked up, each with its spawned task
    internal_events,    \* the InternalEvents sent on internal_tx, each with its request
    receiver_open,  \* whether the receiver of internal_tx is still there
    now,            \* SystemTime::now()
    builders,       \* two DispatcherBuilders, each given runtimes in an order of its own
    observed        \* history: what the last fan-out call on them invoked and returned

dvars == <<phase, dispatcher, context, owner, last, pending>>
rvars == <<replicas, replies>>
svars == <<internal_requests, producer, loop, handled, internal_events,
           receiver_open, now>>
bvars == <<builders, observed>>
vars == <<dvars, rvars, svars, bvars>>

NoCall ==
    [op |-> "none", runtime_id |-> -1, instance_id |-> -1, result |-> Ok,
     returned |-> <<"None">>, enqueued |-> <<>>, calls |-> <<>>, batch |-> <<>>,
     applied |-> <<>>, results |-> <<>>, restarts |-> 0, sent |-> 0,
     steps |-> <<>>, before |-> <<>>]

\* No dispatcher call is under way. Of a call that waits, pending holds where
\* it waits (at: the position in the batch, 0 for a direct init_service), what
\* it has done so far (st), and as history the record of the call (call).
NoPending == [op |-> "none", at |-> 0, call |-> NoCall, st |-> <<>>]

\* The dispatcher, context and owners a call starts from.
CallStart == [self |-> dispatcher, ctx |-> context, owner |-> owner]

\* Dispatcher::with_runtimes(runtimes, inner_requests_tx): the registry is the
\* map it is given, and no instance is known.
WithRuntimes(runtimes) ==
    [runtimes |-> runtimes, runtime_lookup |-> EmptyMap]

\* Dispatcher::new(inner_requests_tx): with_runtimes(Default::default(), ..)
DispatcherNew == WithRuntimes(EmptyMap)

\* The registries a caller may hand to with_runtimes.
RuntimeMaps == UNION {[ids -> SuppliedRuntimes] : ids \in SUBSET RuntimeIds}

ReplicaIds == {1, 2}
BuilderIds == {1, 2}

\* run has been handed to the executor: the for_each cycle is polling.
LoopRunning == [state |-> "running", cycle |-> <<"Pending">>, run |-> <<"Pending">>]

\* prior: the dispatcher and the context the node's call started from;
\* waited: the call was held up in send(RestartApi).wait() on the way.
NoReply ==
    [op |-> "none", instance_id |-> -1, result |-> Ok, batch |-> <<>>,
     applied |-> <<>>, restarts |-> 0, sent |-> 0, waited |-> FALSE,
     prior |-> <<>>]

\* A node's call is not waiting. Of one that waits in send(RestartApi).wait():
\* where it waits in the batch, what it has done so far, the call and its
\* prior state, and what the runtimes return and enqueue for the Actions to
\* come (they behave alike on every node).
NoWaiting ==
    [op |-> "none", at |-> 0, instance_id |-> -1, st |-> <<>>, outcomes |-> <<>>,
     init_enq |-> <<>>, prior |-> <<>>]

\* DispatcherBuilder::new: an empty dispatcher; nothing has been supplied yet.
\* registered and supplied are history: the runtime ids in the order they were
\* first registered, and what with_runtime was last given for each id.
BuilderNew ==
    [phase |-> "building", self |-> DispatcherNew, registered |-> <<>>,
     supplied |-> EmptyMap]

NoObservation ==
    [op |-> "none", on |-> 0, calls |-> <<>>, snapshot |-> <<>>, results |-> <<>>]

\* Every node builds its dispatcher from nothing, with a context of its own.
ReplicaNew ==
    [phase |-> "building", self |-> DispatcherNew, ctx |-> <<>>,
     waiting |-> NoWaiting]

Init ==
    /\ phase = "building"
    /\ dispatcher = DispatcherNew
    /\ context = <<>>
    /\ owner = EmptyMap
    /\ last = NoCall
    /\ pending = NoPending
    /\ replicas = [i \in ReplicaIds |-> ReplicaNew]
    /\ replies = [i \in ReplicaIds |-> NoReply]
    /\ internal_requests = <<>>
    /\ producer = [alive |-> TRUE, sent |-> 0]
    /\ loop = LoopRunning
    /\ handled = <<>>
    /\ internal_events = <<>>
    /\ receiver_open = TRUE
    /\ now = 0
    /\ builders = [b \in BuilderIds |-> BuilderNew]
    /\ observed = NoObservation

\* ------------------------------------------------------------- Dispatcher

\* Mutant: the runtime already registered under the id is kept.
AddRuntime_KeepFirst(self, id, runtime) ==
    IF id \in DOMAIN self.runtimes THEN self
    ELSE [self EXCEPT !.runtimes = Insert(self.runtimes, id, runtime)]

\* self.runtimes.insert(id, runtime.into())
AddRuntime(self, id, runtime) ==
    [self EXCEPT !.runtimes = Insert(self.runtimes, id, runtime)]

\* Mutant: the mapping is inserted with key and value swapped.
NotifyServiceStarted_Swapped(self, service_id, artifact) ==
    [self EXCEPT !.runtime_lookup =
        Insert(self.runtime_lookup, artifact.runtime_id, service_id)]

\* Mutant: the table is started afresh with the new entry.
NotifyServiceStarted_Afresh(self, service_id, artifact) ==
    [self EXCEPT !.runtime_lookup = Insert(EmptyMap, service_id, artifact.runtime_id)]

\* self.runtime_lookup.insert(service_id, artifact.runtime_id)
NotifyServiceStarted(self, service_id, artifact) ==
    [self EXCEPT !.runtime_lookup =
        Insert(self.runtime_lookup, service_id, artifact.runtime_id)]

\* Mutant: an unregistered runtime id falls through to the native runtime.
StartDeploy_Fallback(self, artifact, res) ==
    IF artifact.runtime_id \in DOMAIN self.runtimes
    THEN [result |-> res, returned |-> res,
          calls |-> <<Call(artifact.runtime_id, "start_deploy")>>]
    ELSE [result |-> res, returned |-> res,
          calls |-> <<Call(RustRuntimeId, "start_deploy")>>]

\* res: what the addressed runtime's start_deploy returns.
StartDeploy(self, artifact, res) ==
    IF artifact.runtime_id \in DOMAIN self.runtimes
    THEN [result |-> res, returned |-> res,
          calls |-> <<Call(artifact.runtime_id, "start_deploy")>>]
    ELSE [result |-> DeployWrongRuntime, returned |-> <<"None">>, calls |-> <<>>]

\* res: what the addressed runtime's check_deploy_status returns.
CheckDeployStatus(self, artifact, res) ==
    IF artifact.runtime_id \in DOMAIN self.runtimes
    THEN [result |-> res, returned |-> res,
          calls |-> <<Call(artifact.runtime_id, "check_deploy_status")>>]
    ELSE [result |-> DeployWrongRuntime, returned |-> <<"None">>, calls |-> <<>>]

\* What init_service does for a registered runtime, in the order of the code:
\* the runtime's init_service, notify_service_started if that was a success,
\* and the RestartApi request.
InitSteps(res) ==
    IF res = Ok THEN <<"init_service", "notify_service_started", "RestartApi">>
    ELSE <<"init_service", "RestartApi">>

\* Mutant: the RestartApi request is made only for a service that has started,
\* and before the mapping is recorded.
InitService_RestartFirst(self, ctx, artifact, constructor, res, enq, delivered) ==
    IF artifact.runtime_id \in DOMAIN self.runtimes
    THEN [self |-> IF res = Ok
                   THEN [self EXCEPT !.runtime_lookup =
                            Insert(@, constructor.instance_id, artifact.runtime_id)]
                   ELSE self,
          ctx |-> ctx \o enq,
          result |-> res, returned |-> res,
          calls |-> <<[runtime |-> artifact.runtime_id, method |-> "init_service"]>>,
          restarts |-> IF res = Ok THEN 1 ELSE 0,
          sent |-> IF res = Ok /\ delivered THEN 1 ELSE 0,
          steps |-> IF res = Ok
                    THEN <<"init_service", "RestartApi", "notify_service_started">>
                    ELSE <<"init_service">>]
    ELSE [self |-> self, ctx |-> ctx, result |-> <<"InitError", "WrongRuntime">>,
          returned |-> <<"None">>, calls |-> <<>>, restarts |-> 0, sent |-> 0,
          steps |-> <<>>]

\* Mutant: the mapping is recorded before the runtime's result is looked at.
InitService_NotifyFirst(self, ctx, artifact, constructor, res, enq, delivered) ==
    IF artifact.runtime_id \in DOMAIN self.runtimes
    THEN [self |-> NotifyServiceStarted(self, constructor.instance_id, artifact),
          ctx |-> ctx \o enq,
          result |-> res, returned |-> res,
          calls |-> <<Call(artifact.runtime_id, "init_service")>>,
          restarts |-> 1, sent |-> IF delivered THEN 1 ELSE 0,
          steps |-> InitSteps(res)]
    ELSE [self |-> self, ctx |-> ctx, result |-> InitWrongRuntime,
          returned |-> <<"None">>, calls |-> <<>>, restarts |-> 0, sent |-> 0,
          steps |-> <<>>]

\* Mutant: the mapping is recorded only once the RestartApi request is through.
InitService_NotifyWhenSent(self, ctx, artifact, constructor, res, enq, delivered) ==
    IF artifact.runtime_id \in DOMAIN self.runtimes
    THEN [self |-> IF res = Ok /\ delivered
                   THEN NotifyServiceStarted(self, constructor.instance_id, artifact)
                   ELSE self,
          ctx |-> ctx \o enq,
          result |-> res, returned |-> res,
          calls |-> <<Call(artifact.runtime_id, "init_service")>>,
          restarts |-> 1, sent |-> IF delivered THEN 1 ELSE 0,
          steps |-> InitSteps(res)]
    ELSE [self |-> self, ctx |-> ctx, result |-> InitWrongRuntime,
          returned |-> <<"None">>, calls |-> <<>>, restarts |-> 0, sent |-> 0,
          steps |-> <<>>]

\* Mutant: a RestartApi request that does not get through fails the call.
InitService_SendMustSucceed(self, ctx, artifact, constructor, res, enq, delivered) ==
    IF artifact.runtime_id \in DOMAIN self.runtimes
    THEN [self |-> IF res = Ok
                   THEN NotifyServiceStarted(self, constructor.instance_id, artifact)
                   ELSE self,
          ctx |-> ctx \o enq,
          result |-> IF delivered THEN res ELSE <<"InitError", "InitFailed">>,
          returned |-> res,
          calls |-> <<Call(artifact.runtime_id, "init_service")>>,
          restarts |-> 1, sent |-> IF delivered THEN 1 ELSE 0,
          steps |-> InitSteps(res)]
    ELSE [self |-> self, ctx |-> ctx, result |-> InitWrongRuntime,
          returned |-> <<"None">>, calls |-> <<>>, restarts |-> 0, sent |-> 0,
          steps |-> <<>>]

\* res: what the addressed runtime's init_service returns; enq: the Actions it
\* appends to ctx meanwhile. The RestartApi request is attempted whatever res
\* is; delivered: whether the send on inner_requests_tx succeeds (it fails when
\* the receiver is gone), which the code logs and otherwise ignores.
InitService(self, ctx, artifact, constructor, res, enq, delivered) ==
    IF artifact.runtime_id \in DOMAIN self.runtimes
    THEN [self |-> IF res = Ok
                   THEN NotifyServiceStarted(self, constructor.instance_id, artifact)
                   ELSE self,
          ctx |-> ctx \o enq,
          result |-> res, returned |-> res,
          calls |-> <<Call(artifact.runtime_id, "init_service")>>,
          restarts |-> 1, sent |-> IF delivered THEN 1 ELSE 0,
          steps |-> InitSteps(res)]
    ELSE [self |-> self, ctx |-> ctx, result |-> InitWrongRuntime,
          returned |-> <<"None">>, calls |-> <<>>, restarts |-> 0, sent |-> 0,
          steps |-> <<>>]

\* Action::execute: the Action applied against the dispatcher and the context.
\* st: [self, ctx, owner] plus the record of what has been invoked so far;
\* outcome: what the runtime called for this Action returns, which is passed
\* on through From; enq: what the runtime's init_service appends to the
\* context; delivered: whether the RestartApi request gets through.
ActionExecute(action, st, outcome, enq, delivered) ==
    IF action.type = "StartDeploy"
    THEN LET r == StartDeploy(st.self, action.artifact, outcome)
             result == IF r.result = Ok THEN Ok ELSE FromDeployError(r.result)
         IN [st EXCEPT !.result = result,
                       !.calls = @ \o r.calls,
                       !.applied = Append(@, action),
                       !.results = Append(@, result)]
    ELSE LET r == InitService(st.self, st.ctx, action.artifact, action.constructor,
                              outcome, enq, delivered)
             result == IF r.result = Ok THEN Ok ELSE FromInitError(r.result)
         IN [st EXCEPT !.self = r.self,
                       !.ctx = r.ctx,
                       !.owner = IF r.result = Ok
                                 THEN Insert(@, action.constructor.instance_id,
                                             action.artifact.runtime_id)
                                 ELSE @,
                       !.result = result,
                       !.calls = @ \o r.calls,
                       !.applied = Append(@, action),
                       !.results = Append(@, result),
                       !.restarts = @ + r.restarts,
                       !.sent = @ + r.sent]

\* Mutant: an InitService Action whose RestartApi request does not get through
\* ends the batch: the Actions after it are left unapplied, with success.
RECURSIVE ApplyActions_StopsWhenSendLost(_, _, _, _, _, _)
ApplyActions_StopsWhenSendLost(st, batch, outcomes, enq, delivered, i) ==
    IF i > Len(batch) THEN st
    ELSE LET next == ActionExecute(batch[i], st, outcomes[i], enq[i],
                                   st.restarts < delivered)
         IN IF next.result # Ok \/ (next.restarts > st.restarts /\ next.sent = st.sent)
            THEN next
            ELSE ApplyActions_StopsWhenSendLost(next, batch, outcomes, enq,
                                                delivered, i + 1)

\* Mutant: the drained queue is applied from its back (LIFO).
RECURSIVE ApplyActions_Reversed(_, _, _, _, _, _)
ApplyActions_Reversed(st, batch, outcomes, enq, delivered, i) ==
    IF i > Len(batch) THEN st
    ELSE LET j == Len(batch) + 1 - i
             next == ActionExecute(batch[j], st, outcomes[j], enq[j],
                                   st.restarts < delivered)
         IN IF next.result # Ok THEN next
            ELSE ApplyActions_Reversed(next, batch, outcomes, enq, delivered, i + 1)

\* Mutant: a failing Action does not stop the ones after it (for_each in place
\* of try_for_each); the first error is returned at the end.
RECURSIVE ApplyActions_NoShortCircuit(_, _, _, _, _, _)
ApplyActions_NoShortCircuit(st, batch, outcomes, enq, delivered, i) ==
    IF i > Len(batch) THEN st
    ELSE LET next == ActionExecute(batch[i], st, outcomes[i], enq[i],
                                   st.restarts < delivered)
             rest == ApplyActions_NoShortCircuit(next, batch, outcomes, enq, delivered, i + 1)
         IN IF next.result # Ok THEN [rest EXCEPT !.result = next.result]
            ELSE rest

\* Mutant: once the batch is through, what was appended to the context while it
\* was applied is drained and applied as well.
RECURSIVE ApplyActions_Redrain(_, _, _, _, _, _)
ApplyActions_Redrain(st, batch, outcomes, enq, delivered, i) ==
    IF i > Len(batch)
    THEN IF st.ctx = <<>> THEN st
         ELSE ApplyActions_Redrain([st EXCEPT !.ctx = <<>>], batch \o st.ctx,
                                   outcomes \o [k \in 1..Len(st.ctx) |-> Ok],
                                   enq \o [k \in 1..Len(st.ctx) |-> <<>>],
                                   delivered, i)
    ELSE LET next == ActionExecute(batch[i], st, outcomes[i], enq[i],
                                   st.restarts < delivered)
         IN IF next.result # Ok THEN next
            ELSE ApplyActions_Redrain(next, batch, outcomes, enq, delivered, i + 1)

\* actions.into_iter().try_for_each(|action| action.execute(self, context)):
\* the Actions from position i on, stopping at the first one that fails.
\* outcomes[i] and enq[i]: what the runtime called for the i-th Action returns
\* and appends to the context; delivered: how many RestartApi requests of the
\* call get through before the receiver of inner_requests_tx is gone.
RECURSIVE ApplyActions(_, _, _, _, _, _)
ApplyActions(st, batch, outcomes, enq, delivered, i) ==
    IF i > Len(batch) THEN st
    ELSE LET next == ActionExecute(batch[i], st, outcomes[i], enq[i],
                                   st.restarts < delivered)
         IN IF next.result # Ok THEN next
            ELSE ApplyActions(next, batch, outcomes, enq, delivered, i + 1)

\* Mutant: an instance id that is not in the table counts as the native runtime's.
RuntimeOf_DefaultNative(self, call_info) ==
    IF call_info.instance_id \in DOMAIN self.runtime_lookup
    THEN <<self.runtime_lookup[call_info.instance_id]>>
    ELSE <<RustRuntimeId>>

\* self.runtime_lookup.get(&call_info.instance_id): <<id>> for Some(id), <<>>
\* for None.
RuntimeOf(self, call_info) ==
    IF call_info.instance_id \in DOMAIN self.runtime_lookup
    THEN <<self.runtime_lookup[call_info.instance_id]>>
    ELSE <<>>

\* Mutant: the dispatcher applies the queued Actions although the runtime's
\* execute has failed, and reports the runtime's error afterwards.
Execute_AppliesAfterFailure(self, ctx, own, call_info, res, enq, outcomes, init_enq, delivered) ==
    LET st0 == [self |-> self, ctx |-> ctx, owner |-> own,
                result |-> WrongRuntimeError, returned |-> <<"None">>,
                enqueued |-> <<>>, calls |-> <<>>, batch |-> <<>>,
                applied |-> <<>>, results |-> <<>>, restarts |-> 0, sent |-> 0]
    IN
    IF call_info.instance_id \notin DOMAIN self.runtime_lookup THEN st0
    ELSE LET runtime_id == self.runtime_lookup[call_info.instance_id] IN
         IF runtime_id \in DOMAIN self.runtimes
         THEN LET called == [st0 EXCEPT !.calls = <<Call(runtime_id, "execute")>>,
                                        !.returned = res, !.enqueued = enq,
                                        !.ctx = ctx \o enq]
                  start == [called EXCEPT !.result = Ok, !.ctx = <<>>,
                                          !.batch = called.ctx]
                  done == ApplyActions(start, called.ctx, outcomes, init_enq,
                                       delivered, 1)
                  late == ApplyActions(start, called.ctx,
                                       [k \in DOMAIN called.ctx |-> Ok],
                                       [k \in DOMAIN called.ctx |-> <<>>], 0, 1)
              IN IF res # Ok THEN [late EXCEPT !.result = res] ELSE done
         ELSE st0

\* Dispatcher::execute. res: what the owning runtime's execute returns; enq:
\* the Actions it appends to the context meanwhile; outcomes[i]: what the
\* runtime called for the i-th Action of the drained queue returns;
\* init_enq[i]: what that runtime's init_service appends to the context;
\* delivered: how many of the call's RestartApi requests get through.
Execute(self, ctx, own, call_info, res, enq, outcomes, init_enq, delivered) ==
    LET st0 == [self |-> self, ctx |-> ctx, owner |-> own,
                result |-> WrongRuntimeError, returned |-> <<"None">>,
                enqueued |-> <<>>, calls |-> <<>>, batch |-> <<>>,
                applied |-> <<>>, results |-> <<>>, restarts |-> 0, sent |-> 0]
    IN
    IF RuntimeOf(self, call_info) = <<>> THEN st0
    ELSE LET runtime_id == RuntimeOf(self, call_info)[1] IN
         IF runtime_id \in DOMAIN self.runtimes
         THEN LET called == [st0 EXCEPT !.calls = <<Call(runtime_id, "execute")>>,
                                        !.returned = res, !.enqueued = enq,
                                        !.ctx = ctx \o enq]
              IN IF res # Ok THEN [called EXCEPT !.result = res]
                 ELSE \* context.take_dispatcher_actions() leaves the queue empty
                      ApplyActions([called EXCEPT !.result = Ok, !.ctx = <<>>,
                                                  !.batch = called.ctx],
                                   called.ctx, outcomes, init_enq, delivered, 1)
         ELSE st0

\* The orders in which iterating over the registry may visit its keys: std's
\* HashMap promises none, and its hasher is seeded at random.
IterOrders(self) == Perms(DOMAIN self.runtimes)

\* Dispatcher::before_commit / after_commit: every runtime's hook, in the
\* order the iteration over the registry takes.
CommitHook(self, order, hook) ==
    [i \in 1..Len(order) |-> Call(order[i], hook)]

\* Dispatcher::state_hashes: each runtime's list, flattened in iteration order.
RECURSIVE Flatten(_, _, _)
Flatten(order, hashes, i) ==
    IF i > Len(order) THEN <<>>
    ELSE hashes[order[i]] \o Flatten(order, hashes, i + 1)

StateHashes(self, order, hashes) == Flatten(order, hashes, 1)

\* ------------------------------------------------------ DispatcherBuilder

\* RustRuntime::add_builtin_service returns the artifact of the native runtime.
BuiltinArtifact == [runtime_id |-> RustRuntimeId]

\* DispatcherBuilder::with_runtime(id, runtime)
WithRuntime ==
    /\ phase = "building"
    /\ \E id \in RuntimeIds, runtime \in SuppliedRuntimes :
         dispatcher' = AddRuntime(dispatcher, id, runtime)
    /\ UNCHANGED <<phase, context, owner, last, pending>>
    /\ UNCHANGED <<rvars, svars, bvars>>

\* Mutant: the builtin service is initialised through the native runtime, as
\* init_service would do, with its RestartApi request.
WithBuiltinService_Initialises ==
    /\ phase = "building"
    /\ \E instance_id \in InstanceIds :
         /\ dispatcher' = [dispatcher EXCEPT !.runtime_lookup =
                              Insert(@, instance_id, RustRuntimeId)]
         /\ last' = [op |-> "init_service", runtime_id |-> RustRuntimeId,
                     instance_id |-> instance_id, result |-> Ok, returned |-> Ok,
                     enqueued |-> <<>>,
                     calls |-> <<[runtime |-> RustRuntimeId, method |-> "init_service"]>>,
                     batch |-> <<>>, applied |-> <<>>, results |-> <<>>,
                     restarts |-> 1, sent |-> 1,
                     steps |-> <<"init_service", "notify_service_started", "RestartApi">>,
                     before |-> CallStart]
    /\ UNCHANGED <<phase, context, owner, pending>>
    /\ UNCHANGED <<rvars, svars, bvars>>

\* DispatcherBuilder::with_builtin_service(service)
WithBuiltinService ==
    /\ phase = "building"
    /\ \E instance_id \in InstanceIds :
         dispatcher' = NotifyServiceStarted(dispatcher, instance_id, BuiltinArtifact)
    /\ UNCHANGED <<phase, context, owner, last, pending>>
    /\ UNCHANGED <<rvars, svars, bvars>>

\* Mutant: finalize hands the dispatcher back without the native runtime.
Finalize_NoNative ==
    /\ phase = "building"
    /\ phase' = "ready"
    /\ UNCHANGED <<dispatcher, context, owner, last, pending>>
    /\ UNCHANGED <<rvars, svars, bvars>>

\* DispatcherBuilder::finalize: the native runtime goes in under its id.
Finalize ==
    /\ phase = "building"
    /\ dispatcher' = AddRuntime(dispatcher, RustRuntimeId, BuiltinRuntime)
    /\ phase' = "ready"
    /\ UNCHANGED <<context, owner, last, pending>>
    /\ UNCHANGED <<rvars, svars, bvars>>

\* Dispatcher::new or Dispatcher::with_runtimes called by hand: a Dispatcher
\* made without the builder, which has whatever registry it was given and no
\* native runtime of its own.
NewDispatcher ==
    /\ phase = "building"
    /\ dispatcher = DispatcherNew
    /\ \E runtimes \in RuntimeMaps : dispatcher' = WithRuntimes(runtimes)
    /\ phase' = "ready"
    /\ UNCHANGED <<context, owner, last, pending>>
    /\ UNCHANGED <<rvars, svars, bvars>>

\* ------------------------------- two builders and the fan-out operations

\* What a runtime's state_hashes may return for a snapshot.
HashLists == {<<>>,
              <<<<RUST_SERVICE_ID, "hash_x">>>>,
              <<<<JAVA_SERVICE_ID, "hash_y">>, <<RUST_SERVICE_ID, "hash_x">>>>}
\* A snapshot, seen as what each runtime's state_hashes returns for it.
Snapshots == [RuntimeIds -> HashLists]

\* The order of first registration after one more runtime id is inserted.
Register(registered, id) ==
    IF \E i \in DOMAIN registered : registered[i] = id THEN registered
    ELSE Append(registered, id)

\* DispatcherBuilder::with_runtime(id, runtime) on one of the two builders
BuilderWithRuntime ==
    /\ \E b \in BuilderIds, id \in RuntimeIds, runtime \in SampleRuntimes :
         LET cur == builders[b]
             replaced == /\ id \in DOMAIN cur.supplied
                         /\ \/ cur.supplied[id].replaced
                            \/ cur.supplied[id].runtime # runtime
         IN /\ cur.phase = "building"
            /\ builders' = [builders EXCEPT ![b] =
                  [cur EXCEPT !.self = AddRuntime(cur.self, id, runtime),
                              !.registered = Register(cur.registered, id),
                              !.supplied = Insert(cur.supplied, id,
                                  [runtime |-> runtime, replaced |-> replaced])]]
    /\ UNCHANGED observed
    /\ UNCHANGED <<dvars, rvars, svars>>

\* DispatcherBuilder::finalize on one of the two builders
BuilderFinalize ==
    /\ \E b \in BuilderIds :
         LET cur == builders[b]
         IN /\ cur.phase = "building"
            /\ builders' = [builders EXCEPT ![b] =
                  [cur EXCEPT !.self = AddRuntime(cur.self, RustRuntimeId, BuiltinRuntime),
                              !.registered = Register(cur.registered, RustRuntimeId),
                              !.phase = "ready"]]
    /\ UNCHANGED observed
    /\ UNCHANGED <<dvars, rvars, svars>>

\* Dispatcher::before_commit / after_commit on one of the two dispatchers
BuilderCommitHook ==
    /\ \E b \in BuilderIds, hook \in {"before_commit", "after_commit"} :
         /\ builders[b].phase = "ready"
         /\ \E order \in IterOrders(builders[b].self) :
              observed' = [NoObservation EXCEPT
                              !.op = hook, !.on = b,
                              !.calls = CommitHook(builders[b].self, order, hook)]
    /\ UNCHANGED builders
    /\ UNCHANGED <<dvars, rvars, svars>>

\* Dispatcher::state_hashes(snapshot), called with the same snapshot on each of
\* the two dispatchers; every call iterates over its own registry.
BuilderStateHashes ==
    /\ \A b \in BuilderIds : builders[b].phase = "ready"
    /\ \E snapshot \in Snapshots :
         \E order1 \in IterOrders(builders[1].self),
            order2 \in IterOrders(builders[2].self) :
              LET order == <<order1, order2>>
              IN observed' = [NoObservation EXCEPT
                    !.op = "state_hashes",
                    !.snapshot = snapshot,
                    !.results = [b \in BuilderIds |->
                        StateHashes(builders[b].self, order[b], snapshot)]]
    /\ UNCHANGED builders
    /\ UNCHANGED <<dvars, rvars, svars>>

BuilderNext ==
    \/ BuilderWithRuntime
    \/ BuilderFinalize
    \/ BuilderCommitHook
    \/ BuilderStateHashes

BuilderSpec == Init /\ [][BuilderNext]_vars

\* ----------------------------------------------- calls on the Dispatcher

\* The dispatcher is built, no call is under way and the caller holds no
\* unread result.
Idle == phase = "ready" /\ last = NoCall /\ pending = NoPending

\* The caller reads the result of its last call; the next call can follow.
TakeResult ==
    /\ last # NoCall
    /\ last' = NoCall
    /\ UNCHANGED <<phase, dispatcher, context, owner, pending>>
    /\ UNCHANGED <<rvars, svars, bvars>>

\* RuntimeContext::new: the next transaction gets a context of its own.
NewContext ==
    /\ Idle
    /\ context # <<>>
    /\ context' = <<>>
    /\ UNCHANGED <<phase, dispatcher, owner, last, pending>>
    /\ UNCHANGED <<rvars, svars, bvars>>

\* Dispatcher::add_runtime(id, runtime), a pub fn, on a built Dispatcher: the
\* registry grows, or the runtime under id is replaced.
DoAddRuntime ==
    /\ Idle
    /\ \E id \in RuntimeIds, runtime \in SuppliedRuntimes :
         dispatcher' = AddRuntime(dispatcher, id, runtime)
    /\ UNCHANGED <<phase, context, owner, last, pending>>
    /\ UNCHANGED <<rvars, svars, bvars>>

DoStartDeploy ==
    /\ Idle
    /\ \E artifact \in ArtifactSpec, res \in RuntimeDeployResults :
       \E r \in {StartDeploy(dispatcher, artifact, res)} :
         last' = [NoCall EXCEPT !.op = "start_deploy", !.before = CallStart,
                                !.runtime_id = artifact.runtime_id,
                                !.result = r.result, !.returned = r.returned,
                                !.calls = r.calls]
    /\ UNCHANGED <<phase, dispatcher, context, owner, pending>>
    /\ UNCHANGED <<rvars, svars, bvars>>

DoCheckDeployStatus ==
    /\ Idle
    /\ \E artifact \in ArtifactSpec, res \in RuntimeStatusResults :
       \E r \in {CheckDeployStatus(dispatcher, artifact, res)} :
         last' = [NoCall EXCEPT !.op = "check_deploy_status", !.before = CallStart,
                                !.runtime_id = artifact.runtime_id,
                                !.result = r.result, !.returned = r.returned,
                                !.calls = r.calls]
    /\ UNCHANGED <<phase, dispatcher, context, owner, pending>>
    /\ UNCHANGED <<rvars, svars, bvars>>

\* What becomes of inner_requests_tx.send(RestartApi).wait(): the request is
\* queued; the receiver is gone and the send fails at once; or the bounded
\* channel is full and the call waits until the receiver takes a request or
\* goes away.
SendOutcomes == {"queued", "dropped", "waits"}

\* Dispatcher::init_service up to the end of the send. When the send waits, the
\* runtime has been called and the mapping recorded, and the call has not
\* returned.
DoInitService ==
    /\ Idle
    /\ \E artifact \in ArtifactSpec, constructor \in ServiceConstructor,
          res \in RuntimeInitResults,
          enq \in IF Len(context) < MaxActions THEN InitEnqueues ELSE {<<>>},
          send \in SendOutcomes :
       \E r \in {InitService(dispatcher, context, artifact, constructor, res, enq,
                             send = "queued")} :
         LET call == [NoCall EXCEPT !.op = "init_service", !.before = CallStart,
                                    !.runtime_id = artifact.runtime_id,
                                    !.instance_id = constructor.instance_id,
                                    !.result = r.result, !.returned = r.returned,
                                    !.enqueued = IF r.calls = <<>> THEN <<>> ELSE enq,
                                    !.calls = r.calls, !.restarts = r.restarts,
                                    !.sent = r.sent, !.steps = r.steps]
         IN /\ send = "waits" => r.restarts > 0
            /\ dispatcher' = r.self
            /\ context' = r.ctx
            /\ owner' = IF r.result = Ok
                        THEN Insert(owner, constructor.instance_id, artifact.runtime_id)
                        ELSE owner
            /\ IF send = "waits"
               THEN /\ pending' = [op |-> "init_service", at |-> 0, call |-> call,
                                   st |-> <<>>]
                    /\ last' = last
               ELSE /\ last' = call
                    /\ pending' = NoPending
    /\ UNCHANGED phase
    /\ UNCHANGED <<rvars, svars, bvars>>

\* The end of the wait of an init_service call: the request is queued, or the
\* receiver has gone away and the send fails; the call returns what the
\* runtime returned.
ResumeInitService ==
    /\ pending.op = "init_service"
    /\ \E queued \in BOOLEAN :
         last' = [pending.call EXCEPT !.sent = IF queued THEN 1 ELSE 0]
    /\ pending' = NoPending
    /\ UNCHANGED <<phase, dispatcher, context, owner>>
    /\ UNCHANGED <<rvars, svars, bvars>>

\* Whether an execute call gets as far as applying the queue.
Applies(self, call_info, res) ==
    RuntimeOf(self, call_info) # <<>> /\ res = Ok

\* What the owning runtime's execute may return and enqueue. When the instance
\* id has no owner no runtime is called: there is nothing to return or enqueue.
ExecResults(self, call_info) ==
    IF RuntimeOf(self, call_info) = <<>> THEN {Ok} ELSE RuntimeExecResults

\* max: the longest queue the context is let to hold when the call succeeds;
\* a call that fails leaves it no longer than MaxLeftover. queues[n]: the
\* queues of up to n Actions the runtime chooses from.
ExecEnqueues(self, ctx, call_info, res, max, queues) ==
    LET room == (IF res = Ok THEN max ELSE Min(MaxLeftover, max)) - Len(ctx)
    IN IF RuntimeOf(self, call_info) = <<>> \/ room <= 0 THEN {<<>>}
       ELSE queues[room]

\* The positions from `from` on at which applying the batch sends a RestartApi
\* request: the InitService Actions whose runtime is registered.
WaitPoints(self, batch, from) ==
    {i \in from..Len(batch) :
        /\ batch[i].type = "InitService"
        /\ batch[i].artifact.runtime_id \in DOMAIN self.runtimes}

\* How many RestartApi requests the Actions from..to send.
Sends(self, batch, from, to) ==
    Cardinality({i \in WaitPoints(self, batch, from) : i <= to})

\* What the runtimes called for the Actions from..to may return: every call
\* succeeds, or the one at position failing fails in one of the ways its
\* runtime can fail. The outcome of a call after a failed one is never asked
\* for.
Failures(batch, failing) ==
    IF failing = 0 THEN {Ok} ELSE ActionOutcomes(batch[failing]) \ {Ok}

Outcomes(batch, failing, failure) ==
    [i \in 1..Len(batch) |-> IF i = failing THEN failure ELSE Ok]

\* What those runtimes may append to the context, each call on its own: only
\* a runtime's init_service is handed the context.
InitEnqueuesOf(self, batch, from, to) ==
    {e \in [1..Len(batch) -> InitEnqueues] :
        \A i \in 1..Len(batch) :
            \/ e[i] = <<>>
            \/ /\ from <= i /\ i <= to
               /\ batch[i].type = "InitService"
               /\ batch[i].artifact.runtime_id \in DOMAIN self.runtimes}

\* How far a batch can be applied at most: an Action whose runtime is not
\* registered fails whatever the runtimes do.
Furthest(self, batch) ==
    LET rejected == {i \in 1..Len(batch) :
                        batch[i].artifact.runtime_id \notin DOMAIN self.runtimes}
    IN IF rejected = {} THEN Len(batch)
       ELSE CHOOSE i \in rejected : \A j \in rejected : i <= j

\* The positions from `from` to `to` at which a runtime is called, and so may
\* fail.
CallPoints(self, batch, from, to) ==
    {i \in from..to : batch[i].artifact.runtime_id \in DOMAIN self.runtimes}

\* How far the call gets in the batch before it returns or waits.
Reach(far, stop, failing) ==
    IF failing # 0 THEN failing ELSE IF stop # 0 THEN stop ELSE far

\* The history record of an execute call: when it starts, and when it has
\* returned.
ExecuteCall(call_info) ==
    [NoCall EXCEPT !.op = "execute", !.instance_id = call_info.instance_id,
                   !.before = CallStart]

ExecuteRecord(call, r) ==
    [call EXCEPT !.result = r.result, !.returned = r.returned,
                 !.enqueued = r.enqueued, !.calls = r.calls,
                 !.batch = r.batch, !.applied = r.applied,
                 !.results = r.results, !.restarts = r.restarts]

\* Dispatcher::execute, up to its return or to the first RestartApi request
\* that has to wait (stop: the position of the InitService Action whose send
\* waits, 0 when none does). A send can only wait while the receiver is there:
\* the requests sent before it were queued. What becomes of a request that
\* does not wait is discarded by the code and shows in nothing the call leaves
\* behind (`last` counts the attempts): it is drawn where it is recorded, in
\* ReplicaExecute.
DoExecute ==
    /\ Idle
    /\ \E call_info \in CallInfo :
       \E res \in ExecResults(dispatcher, call_info) :
       \E enq \in ExecEnqueues(dispatcher, context, call_info, res, MaxActions,
                                ActionQueues) :
       \E batch \in {IF Applies(dispatcher, call_info, res)
                     THEN context \o enq ELSE <<>>} :
       \E far \in {Furthest(dispatcher, batch)} :
         \E stop \in {0} \cup WaitPoints(dispatcher, SubSeq(batch, 1, far), 1) :
         \E failing \in IF stop = 0
                        THEN {0} \cup CallPoints(dispatcher, batch, 1, far)
                        ELSE {0, stop} :
         \E failure \in Failures(batch, failing) :
         \E init_enq \in InitEnqueuesOf(dispatcher, batch, 1,
                                        Reach(far, stop, failing)) :
         \E delivered \in {Sends(dispatcher, batch, 1, Reach(far, stop, failing))
                            - IF stop = 0 THEN 0 ELSE 1} :
         \E r \in {IF stop = 0
                   THEN Execute(dispatcher, context, owner, call_info, res, enq,
                                Outcomes(batch, failing, failure), init_enq,
                                delivered)
                   ELSE \* the Actions up to stop, of the whole queue drained
                        Execute(dispatcher, SubSeq(batch, 1, Min(stop, Len(context))),
                                owner, call_info, res,
                                SubSeq(batch, Len(context) + 1, stop),
                                Outcomes(batch, failing, failure), init_enq,
                                delivered)} :
           /\ dispatcher' = r.self
           /\ context' = r.ctx
           /\ owner' = r.owner
           /\ IF stop = 0
              THEN /\ last' = ExecuteRecord(ExecuteCall(call_info), r)
                   /\ pending' = NoPending
              ELSE /\ pending' = [op |-> "execute", at |-> stop,
                                  call |-> ExecuteCall(call_info),
                                  st |-> [r EXCEPT !.enqueued = enq,
                                                   !.batch = batch]]
                   /\ last' = last
    /\ UNCHANGED phase
    /\ UNCHANGED <<rvars, svars, bvars>>

\* Where a call that waited at position `at` gets to once the wait is over.
\* queued: the request was queued in the end (else the receiver went away, and
\* no later send gets through); stop: the position of the next send that
\* waits; more: how many of the later sends get through when none waits.
Resumed(st, at, queued, stop, outcomes, enq, more) ==
    LET sent == [st EXCEPT !.sent = IF queued THEN @ + 1 ELSE @]
        delivered == IF ~queued THEN 0
                     ELSE IF stop # 0
                          THEN st.restarts + Sends(st.self, st.batch, at + 1, stop) - 1
                          ELSE st.restarts + more
    IN IF sent.result # Ok THEN sent
       ELSE ApplyActions(sent,
                         IF stop = 0 THEN st.batch ELSE SubSeq(st.batch, 1, stop),
                         outcomes, enq, delivered, at + 1)

\* The end of the wait of an execute call: the InitService Action's result is
\* looked at, and the rest of the batch is applied up to the return or to the
\* next send that waits. Whether the wait ended with the request queued or
\* with the receiver gone shows in nothing the call leaves behind: it is drawn
\* where it is recorded, in ReplicaResume.
ResumeExecute ==
    /\ pending.op = "execute"
    /\ \E st \in {pending.st}, at \in {pending.at} :
       \E far \in {IF st.result = Ok THEN Furthest(dispatcher, st.batch) ELSE at} :
       \E stop \in {0} \cup WaitPoints(dispatcher, SubSeq(st.batch, 1, far), at + 1) :
       \E failing \in IF stop = 0
                      THEN {0} \cup CallPoints(dispatcher, st.batch, at + 1, far)
                      ELSE {0, stop} :
       \E failure \in Failures(st.batch, failing) :
       \E init_enq \in InitEnqueuesOf(dispatcher, st.batch, at + 1,
                                      Reach(far, stop, failing)) :
       \E more \in {Sends(dispatcher, st.batch, at + 1, Reach(far, stop, failing))} :
       \E r \in {Resumed(st, at, TRUE, stop,
                         Outcomes(st.batch, failing, failure), init_enq, more)} :
         /\ dispatcher' = r.self
         /\ context' = r.ctx
         /\ owner' = r.owner
         /\ IF stop = 0
            THEN /\ last' = ExecuteRecord(pending.call, r)
                 /\ pending' = NoPending
            ELSE /\ pending' = [pending EXCEPT !.at = stop, !.st = r]
                 /\ last' = last
    /\ UNCHANGED phase
    /\ UNCHANGED <<rvars, svars, bvars>>

DoCommitHook ==
    /\ Idle
    /\ \E hook \in {"before_commit", "after_commit"}, order \in IterOrders(dispatcher) :
         last' = [NoCall EXCEPT !.op = hook, !.before = CallStart,
                                !.calls = CommitHook(dispatcher, order, hook)]
    /\ UNCHANGED <<phase, dispatcher, context, owner, pending>>
    /\ UNCHANGED <<rvars, svars, bvars>>

Next ==
    \/ WithRuntime
    \/ WithBuiltinService
    \/ Finalize
    \/ NewDispatcher
    \/ TakeResult
    \/ NewContext
    \/ DoAddRuntime
    \/ DoStartDeploy
    \/ DoCheckDeployStatus
    \/ DoInitService
    \/ ResumeInitService
    \/ DoExecute
    \/ ResumeExecute
    \/ DoCommitHook

Spec == Init /\ [][Next]_vars

\* ------------------------------------------------ replicas, side by side
\* Every node runs the same builder calls and executes the same transactions
\* with runtimes that behave alike. What a node has of its own is the receiving
\* end of inner_requests_tx: whether a RestartApi request gets through.

ReplicasBuilding == \A i \in ReplicaIds : replicas[i].phase = "building"

ReplicasIdle ==
    \A i \in ReplicaIds :
        /\ replicas[i].phase = "ready"
        /\ replicas[i].waiting = NoWaiting
        /\ replies[i] = NoReply

\* DispatcherBuilder::with_runtime(id, runtime), on every node
ReplicaWithRuntime ==
    /\ ReplicasBuilding
    /\ \E id \in RuntimeIds, runtime \in SuppliedRuntimes :
         replicas' = [i \in ReplicaIds |->
                        [replicas[i] EXCEPT !.self = AddRuntime(@, id, runtime)]]
    /\ UNCHANGED <<dvars, replies, svars, bvars>>

\* DispatcherBuilder::with_builtin_service(service), on every node
ReplicaWithBuiltinService ==
    /\ ReplicasBuilding
    /\ \E instance_id \in InstanceIds :
         replicas' = [i \in ReplicaIds |->
                        [replicas[i] EXCEPT !.self =
                            NotifyServiceStarted(@, instance_id, BuiltinArtifact)]]
    /\ UNCHANGED <<dvars, replies, svars, bvars>>

\* DispatcherBuilder::finalize, on every node
ReplicaFinalize ==
    /\ ReplicasBuilding
    /\ replicas' = [i \in ReplicaIds |->
                     [replicas[i] EXCEPT !.self = AddRuntime(@, RustRuntimeId, BuiltinRuntime),
                                         !.phase = "ready"]]
    /\ UNCHANGED <<dvars, replies, svars, bvars>>

\* The nodes read the results of their last call, once it has returned on
\* every node.
ReplicaTakeResult ==
    /\ \E i \in ReplicaIds : replies[i] # NoReply
    /\ \A i \in ReplicaIds : replicas[i].waiting = NoWaiting
    /\ replies' = [i \in ReplicaIds |-> NoReply]
    /\ UNCHANGED <<dvars, replicas, svars, bvars>>

\* RuntimeContext::new on every node: the next transaction.
ReplicaNewContext ==
    /\ ReplicasIdle
    /\ \E i \in ReplicaIds : replicas[i].ctx # <<>>
    /\ replicas' = [i \in ReplicaIds |-> [replicas[i] EXCEPT !.ctx = <<>>]]
    /\ UNCHANGED <<dvars, replies, svars, bvars>>

\* What a node answers when its execute call has returned.
Reply(instance_id, r, prior, waited) ==
    [NoReply EXCEPT !.op = "execute", !.instance_id = instance_id,
                    !.result = r.result, !.batch = r.batch,
                    !.applied = r.applied, !.restarts = r.restarts,
                    !.sent = r.sent, !.waited = waited, !.prior = prior]

\* What a node's API channel does to the RestartApi requests of the Actions
\* 1..reach of a batch, as <<stop, delivered>>: no send waits and the first
\* `delivered` of them get through, the receiver going away after that
\* (stop = 0); or the send of the Action at `stop` is the first to wait, the
\* ones before it having been queued.
ChannelRuns(self, batch, reach) ==
    {<<0, d>> : d \in 0..Sends(self, batch, 1, reach)}
    \cup {<<k, Sends(self, batch, 1, k) - 1>> :
            k \in {w \in WaitPoints(self, batch, 1) : w <= reach}}

\* Dispatcher::execute of one transaction on every node: the same call_info,
\* the same behaviour of the runtimes (res, enq, outcomes, init_enq), and for
\* each node the state of its own API channel, chan[i] = <<stop, delivered>>.
ReplicaExecute ==
    /\ ReplicasIdle
    /\ \E first \in {replicas[CHOOSE i \in ReplicaIds : TRUE]} :
       \E call_info \in CallInfo :
       \E res \in ExecResults(first.self, call_info) :
       \E enq \in ExecEnqueues(first.self, first.ctx, call_info, res,
                                MaxReplicaActions, ReplicaActionQueues) :
       \E batch \in {IF Applies(first.self, call_info, res)
                     THEN first.ctx \o enq ELSE <<>>} :
       \E far \in {Furthest(first.self, batch)} :
       \E failing \in {0} \cup CallPoints(first.self, batch, 1, far) :
       \E failure \in Failures(batch, failing) :
       \E reach \in {Reach(far, 0, failing)} :
       \E outcomes \in {Outcomes(batch, failing, failure)} :
       \E init_enq \in InitEnqueuesOf(first.self, batch, 1, reach) :
       \E chan \in [ReplicaIds -> ChannelRuns(first.self, batch, reach)] :
       \E r \in {[i \in ReplicaIds |->
                    IF chan[i][1] = 0
                    THEN Execute(replicas[i].self, replicas[i].ctx, EmptyMap,
                                 call_info, res, enq, outcomes, init_enq,
                                 chan[i][2])
                    ELSE \* the Actions up to the send that waits
                         Execute(replicas[i].self,
                                 SubSeq(batch, 1, Min(chan[i][1], Len(replicas[i].ctx))),
                                 EmptyMap, call_info, res,
                                 SubSeq(batch, Len(replicas[i].ctx) + 1, chan[i][1]),
                                 outcomes, init_enq, chan[i][2])]} :
         /\ \A i \in ReplicaIds :
              chan[i][1] # 0 => Len(r[i].applied) = chan[i][1]
         /\ replicas' = [i \in ReplicaIds |->
              [replicas[i] EXCEPT
                 !.self = r[i].self,
                 !.ctx = r[i].ctx,
                 !.waiting =
                    IF chan[i][1] = 0 THEN NoWaiting
                    ELSE [op |-> "execute", at |-> chan[i][1],
                          instance_id |-> call_info.instance_id,
                          st |-> [r[i] EXCEPT !.enqueued = enq, !.batch = batch],
                          outcomes |-> outcomes,
                          init_enq |-> init_enq,
                          prior |-> [self |-> replicas[i].self,
                                     ctx |-> replicas[i].ctx]]]]
         /\ replies' = [i \in ReplicaIds |->
              IF chan[i][1] = 0
              THEN Reply(call_info.instance_id, r[i],
                         [self |-> replicas[i].self, ctx |-> replicas[i].ctx],
                         FALSE)
              ELSE NoReply]
    /\ UNCHANGED <<dvars, svars, bvars>>

\* The end of a node's wait: its request is queued, or its receiver has gone
\* away; the node applies the rest of the batch up to the return or to the
\* next send it has to wait on.
ReplicaResume ==
    /\ \E i \in ReplicaIds :
         LET w == replicas[i].waiting IN
         /\ w.op = "execute"
         /\ \E queued \in BOOLEAN :
            \E stop \in IF queued
                        THEN {0} \cup WaitPoints(replicas[i].self, w.st.batch, w.at + 1)
                        ELSE {0} :
            \E more \in IF queued /\ stop = 0
                        THEN 0..Sends(replicas[i].self, w.st.batch, w.at + 1,
                                      Len(w.st.batch))
                        ELSE {0} :
            \E r \in {Resumed(w.st, w.at, queued, stop, w.outcomes, w.init_enq,
                              more)} :
              /\ stop # 0 => Len(r.applied) = stop
              /\ replicas' = [replicas EXCEPT ![i] =
                    [@ EXCEPT !.self = r.self,
                              !.ctx = r.ctx,
                              !.waiting = IF stop = 0 THEN NoWaiting
                                          ELSE [w EXCEPT !.at = stop, !.st = r]]]
              /\ replies' = [replies EXCEPT ![i] =
                    IF stop = 0 THEN Reply(w.instance_id, r, w.prior, TRUE)
                    ELSE @]
    /\ UNCHANGED <<dvars, svars, bvars>>

ReplicaNext ==
    \/ ReplicaWithRuntime
    \/ ReplicaWithBuiltinService
    \/ ReplicaFinalize
    \/ ReplicaTakeResult
    \/ ReplicaNewContext
    \/ ReplicaExecute
    \/ ReplicaResume

ReplicaSpec == Init /\ [][ReplicaNext]_vars

\* ----------------------------------------------------- signed messages
\* The bytes of a SignedMessage are <<author, payload, signature>>; anything
\* of another length does not decode. Payload 1 is a Status message, the one
\* message kind of the model.

Author == 1
StatusPayload == 1
\* Signature::zero()
SignatureZero == 0

\* The signature of payload under the author's secret key: never zero.
Sign(author, payload) == author + payload + 1

\* Verified::from_value(..).into_raw().into_bytes()
IntoBytes(author, payload, signature) == <<author, payload, signature>>

\* tests::get_signed_message, and the same with its signature zeroed or with
\* its last byte cut off.
SignedBytes == IntoBytes(Author, StatusPayload, Sign(Author, StatusPayload))
ZeroSignatureBytes == IntoBytes(Author, StatusPayload, SignatureZero)
TruncatedBytes == <<Author, StatusPayload>>
RawMessages == {SignedBytes, ZeroSignatureBytes, TruncatedBytes}

\* SignedMessage::from_bytes: <<message>> for Ok, <<>> for Err.
FromBytes(raw) ==
    IF Len(raw) = 3
    THEN <<[author |-> raw[1], payload |-> raw[2], signature |-> raw[3]]>>
    ELSE <<>>

\* Mutant: the signature is not looked at.
IntoVerified_Unchecked(signed) ==
    IF signed.payload = StatusPayload
    THEN <<[message |-> "Status", author |-> signed.author, raw |-> signed]>>
    ELSE <<>>

\* SignedMessage::into_verified::<ExonumMessage>: the signature is checked
\* against the author's key, then the payload is decoded.
IntoVerified(signed) ==
    IF /\ signed.signature = Sign(signed.author, signed.payload)
       /\ signed.payload = StatusPayload
    THEN <<[message |-> "Status", author |-> signed.author, raw |-> signed]>>
    ELSE <<>>

\* Message::from(Verified<ExonumMessage>): the variant of the message's kind.
MessageFrom(verified) == [kind |-> verified.message, verified |-> verified]

\* --------------------------------------------- requests, events and tasks

NodeTimeouts == {"Round", "Status"}
Heights == {1}
Rounds == {2}

InternalRequest ==
    [type : {"VerifyMessage"}, raw : RawMessages]
    \cup [type : {"Timeout"}, time : 0..MaxTime, timeout : NodeTimeouts]
    \cup [type : {"JumpToRound"}, height : Heights, round : Rounds]
    \cup [type : {"Shutdown"}]

\* InternalEvent::message_verified, timeout, jump_to_round, shutdown
MessageVerified(msg) == [type |-> "MessageVerified", msg |-> msg]
TimeoutEvent(timeout) == [type |-> "Timeout", timeout |-> timeout]
JumpToRoundEvent(height, round) ==
    [type |-> "JumpToRound", height |-> height, round |-> round]
ShutdownEvent == [type |-> "Shutdown"]

\* Mutant: an event equal to one already sent is not sent again.
SendEvent_Dedup(events, open, event, req) ==
    IF open /\ ~\E k \in DOMAIN events : events[k].event = event
    THEN Append(events, [event |-> event, req |-> req])
    ELSE events

\* Mutant: the event is put on the channel twice, receiver or no receiver.
SendEvent_Twice(events, open, event, req) ==
    events \o <<[event |-> event, req |-> req], [event |-> event, req |-> req]>>

\* InternalPart::send_event: the event goes on the channel when its receiver
\* is there; when it has hung up the send fails and the failure is dropped.
\* req: the request the event is for.
SendEvent(events, open, event, req) ==
    IF open THEN Append(events, [event |-> event, req |-> req]) ELSE events

\* Mutant: a message is let through when verification fails.
VerifyMessage_Inverted(raw) ==
    LET signed == FromBytes(raw) IN
    IF signed = <<>> THEN <<>>
    ELSE IF IntoVerified(signed[1]) = <<>>
         THEN <<MessageVerified(MessageFrom(IntoVerified_Unchecked(signed[1])[1]))>>
         ELSE <<>>

\* Mutant: the decoded message goes out without into_verified.
VerifyMessage_Unverified(raw) ==
    LET signed == FromBytes(raw) IN
    IF signed = <<>> THEN <<>>
    ELSE LET verified == IntoVerified_Unchecked(signed[1]) IN
         IF verified = <<>> THEN <<>>
         ELSE <<MessageVerified(MessageFrom(verified[1]))>>

\* InternalPart::verify_message up to the send: <<event>> when the bytes
\* decode and verify, <<>> when either fails (map_err(drop)).
VerifyMessage(raw) ==
    LET signed == FromBytes(raw) IN
    IF signed = <<>> THEN <<>>
    ELSE LET verified == IntoVerified(signed[1]) IN
         IF verified = <<>> THEN <<>>
         ELSE <<MessageVerified(MessageFrom(verified[1]))>>

\* Mutant: a deadline that has passed is waited for by as much as it is past
\* (the duration carried by the SystemTimeError).
TimeoutDuration_Abs(time, at) == IF time >= at THEN time - at ELSE at - time

\* time.duration_since(SystemTime::now()).unwrap_or_else(|_| 0 ms)
TimeoutDuration(time, at) == IF time >= at THEN time - at ELSE 0

\* What the loop records of a request it picked up, and the task spawned for it.
Picked(request, outcome, kind, wake) ==
    [request |-> request, outcome |-> outcome, kind |-> kind,
     task |-> IF outcome = "spawned" THEN "pending" ELSE "none", wake |-> wake]

\* The for_each closure returned Err(()): the cycle ends with the error, which
\* or_else(Ok) turns into the success of run.
LoopFailed == [state |-> "finished", cycle |-> <<"Err">>, run |-> Ok]
\* The request stream ended: the cycle, and run, end with Ok.
LoopEnded == [state |-> "finished", cycle |-> Ok, run |-> Ok]

\* Mutant: the closure does not look at internal_tx.is_closed().
HandleRequest_NoCloseCheck(request, open, at, spawn_ok) ==
    IF request.type = "VerifyMessage"
    THEN [loop |-> LoopRunning, picked |-> Picked(request, "spawned", "verify", 0)]
    ELSE IF request.type = "Timeout"
    THEN IF spawn_ok
         THEN [loop |-> LoopRunning,
               picked |-> Picked(request, "spawned", "timer",
                                 at + TimeoutDuration(request.time, at))]
         ELSE [loop |-> LoopFailed, picked |-> Picked(request, "spawn_failed", "none", 0)]
    ELSE IF spawn_ok
         THEN [loop |-> LoopRunning, picked |-> Picked(request, "spawned", "send", 0)]
         ELSE [loop |-> LoopFailed, picked |-> Picked(request, "spawn_failed", "none", 0)]

\* The closure of for_each applied to one request. open: !internal_tx.is_closed();
\* spawn_ok: whether the executor behind handle takes the task.
\* [loop, picked]: the state the loop is left in and what it did for the request.
HandleRequest(request, open, at, spawn_ok) ==
    IF ~open
    THEN [loop |-> LoopFailed, picked |-> Picked(request, "receiver_closed", "none", 0)]
    ELSE IF request.type = "VerifyMessage"
    THEN \* tokio_02::spawn hands back a JoinHandle, never an error
         [loop |-> LoopRunning, picked |-> Picked(request, "spawned", "verify", 0)]
    ELSE IF request.type = "Timeout"
    THEN IF spawn_ok
         THEN [loop |-> LoopRunning,
               picked |-> Picked(request, "spawned", "timer",
                                 at + TimeoutDuration(request.time, at))]
         ELSE [loop |-> LoopFailed, picked |-> Picked(request, "spawn_failed", "none", 0)]
    ELSE \* JumpToRound, Shutdown
         IF spawn_ok
         THEN [loop |-> LoopRunning, picked |-> Picked(request, "spawned", "send", 0)]
         ELSE [loop |-> LoopFailed, picked |-> Picked(request, "spawn_failed", "none", 0)]

\* ------------------------------------------------- the scheduler at work

\* The consensus core sends a request on internal_requests_tx.
SendRequest ==
    /\ producer.alive
    /\ producer.sent < MaxRequests
    /\ loop.state = "running"
    /\ \E request \in InternalRequest :
         internal_requests' = Append(internal_requests, request)
    /\ producer' = [producer EXCEPT !.sent = @ + 1]
    /\ UNCHANGED <<loop, handled, internal_events, receiver_open, now>>
    /\ UNCHANGED <<dvars, rvars, bvars>>

\* Every sender of requests is dropped.
DropSenders ==
    /\ producer.alive
    /\ producer' = [producer EXCEPT !.alive = FALSE]
    /\ UNCHANGED <<internal_requests, loop, handled, internal_events, receiver_open, now>>
    /\ UNCHANGED <<dvars, rvars, bvars>>

\* The consensus core drops the receiver of internal events.
CloseReceiver ==
    /\ receiver_open
    /\ receiver_open' = FALSE
    /\ UNCHANGED <<internal_requests, producer, loop, handled, internal_events, now>>
    /\ UNCHANGED <<dvars, rvars, bvars>>

\* Time passes.
Tick ==
    /\ now < MaxTime
    /\ now' = now + 1
    /\ UNCHANGED <<internal_requests, producer, loop, handled, internal_events,
                   receiver_open>>
    /\ UNCHANGED <<dvars, rvars, bvars>>

\* The loop takes the next request off the stream and runs its closure on it.
LoopHandleRequest ==
    /\ loop.state = "running"
    /\ internal_requests # <<>>
    /\ \E spawn_ok \in IF receiver_open /\ Head(internal_requests).type # "VerifyMessage"
                         THEN BOOLEAN ELSE {TRUE} :
         LET r == HandleRequest(Head(internal_requests), receiver_open, now, spawn_ok)
         IN /\ loop' = r.loop
            /\ handled' = Append(handled, r.picked)
    /\ internal_requests' = Tail(internal_requests)
    /\ UNCHANGED <<producer, internal_events, receiver_open, now>>
    /\ UNCHANGED <<dvars, rvars, bvars>>

\* Mutant: the tasks the loop spawned are dropped with it when it ends.
LoopEnd_CancelsTasks ==
    /\ loop.state = "running"
    /\ internal_requests = <<>>
    /\ ~producer.alive
    /\ loop' = [state |-> "finished", cycle |-> <<"Ok">>, run |-> <<"Ok">>]
    /\ handled' = [i \in DOMAIN handled |->
                     IF handled[i].task = "pending"
                     THEN [handled[i] EXCEPT !.task = "cancelled"]
                     ELSE handled[i]]
    /\ UNCHANGED <<internal_requests, producer, internal_events, receiver_open, now>>
    /\ UNCHANGED <<dvars, rvars, bvars>>

\* The stream of requests ends: nothing is queued and no sender is left.
LoopEnd ==
    /\ loop.state = "running"
    /\ internal_requests = <<>>
    /\ ~producer.alive
    /\ loop' = LoopEnded
    /\ UNCHANGED <<internal_requests, producer, handled, internal_events,
                   receiver_open, now>>
    /\ UNCHANGED <<dvars, rvars, bvars>>

\* The executor runs a verification task: verify_message, then the send.
RunVerifyTask ==
    /\ \E i \in DOMAIN handled :
         /\ handled[i].kind = "verify"
         /\ handled[i].task = "pending"
         /\ LET event == VerifyMessage(handled[i].request.raw)
            IN internal_events' =
                 IF event = <<>> THEN internal_events
                 ELSE SendEvent(internal_events, receiver_open, event[1], i)
         /\ handled' = [handled EXCEPT ![i].task = "done"]
    /\ UNCHANGED <<internal_requests, producer, loop, receiver_open, now>>
    /\ UNCHANGED <<dvars, rvars, bvars>>

\* Mutant: expect("cannot send event") sees the failure of the send: the timer
\* task panics when the receiver has hung up.
FireTimer_Panics ==
    /\ \E i \in DOMAIN handled :
         /\ handled[i].kind = "timer"
         /\ handled[i].task = "pending"
         /\ now >= handled[i].wake
         /\ internal_events' =
              IF receiver_open
              THEN Append(internal_events,
                          [event |-> [type |-> "Timeout",
                                      timeout |-> handled[i].request.timeout],
                           req |-> i])
              ELSE internal_events
         /\ handled' = [handled EXCEPT ![i].task =
                           IF receiver_open THEN "done" ELSE "panicked"]
    /\ UNCHANGED <<internal_requests, producer, loop, receiver_open, now>>
    /\ UNCHANGED <<dvars, rvars, bvars>>

\* Mutant: timers share the queue of the verification work: a timer whose delay
\* has run out sends its event only when no verification task is waiting.
FireTimer_BehindVerification ==
    /\ \A j \in DOMAIN handled :
         ~(handled[j].kind = "verify" /\ handled[j].task = "pending")
    /\ \E i \in DOMAIN handled :
         /\ handled[i].kind = "timer"
         /\ handled[i].task = "pending"
         /\ now >= handled[i].wake
         /\ internal_events' =
              IF receiver_open
              THEN Append(internal_events,
                          [event |-> [type |-> "Timeout",
                                      timeout |-> handled[i].request.timeout],
                           req |-> i])
              ELSE internal_events
         /\ handled' = [handled EXCEPT ![i].task = "done"]
    /\ UNCHANGED <<internal_requests, producer, loop, receiver_open, now>>
    /\ UNCHANGED <<dvars, rvars, bvars>>

\* A timer task whose delay has run out sends its Timeout event.
FireTimer ==
    /\ \E i \in DOMAIN handled :
         /\ handled[i].kind = "timer"
         /\ handled[i].task = "pending"
         /\ now >= handled[i].wake
         /\ internal_events' =
              SendEvent(internal_events, receiver_open,
                        TimeoutEvent(handled[i].request.timeout), i)
         /\ handled' = [handled EXCEPT ![i].task = "done"]
    /\ UNCHANGED <<internal_requests, producer, loop, receiver_open, now>>
    /\ UNCHANGED <<dvars, rvars, bvars>>

\* Mutant: the send task of a JumpToRound request swaps height and round.
RunSendTask_Swapped ==
    /\ \E i \in DOMAIN handled :
         /\ handled[i].kind = "send"
         /\ handled[i].task = "pending"
         /\ LET request == handled[i].request
                event == IF request.type = "JumpToRound"
                         THEN [type |-> "JumpToRound", height |-> request.round,
                               round |-> request.height]
                         ELSE [type |-> "Shutdown"]
            IN internal_events' =
                 IF receiver_open
                 THEN Append(internal_events, [event |-> event, req |-> i])
                 ELSE internal_events
         /\ handled' = [handled EXCEPT ![i].task = "done"]
    /\ UNCHANGED <<internal_requests, producer, loop, receiver_open, now>>
    /\ UNCHANGED <<dvars, rvars, bvars>>

\* The executor runs the task that sends a JumpToRound or Shutdown event.
RunSendTask ==
    /\ \E i \in DOMAIN handled :
         /\ handled[i].kind = "send"
         /\ handled[i].task = "pending"
         /\ LET request == handled[i].request
            IN internal_events' =
                 SendEvent(internal_events, receiver_open,
                           IF request.type = "JumpToRound"
                           THEN JumpToRoundEvent(request.height, request.round)
                           ELSE ShutdownEvent, i)
         /\ handled' = [handled EXCEPT ![i].task = "done"]
    /\ UNCHANGED <<internal_requests, producer, loop, receiver_open, now>>
    /\ UNCHANGED <<dvars, rvars, bvars>>

SchedNext ==
    \/ SendRequest
    \/ DropSenders
    \/ CloseReceiver
    \/ Tick
    \/ LoopHandleRequest
    \/ LoopEnd
    \/ RunVerifyTask
    \/ FireTimer
    \/ RunSendTask

SchedSpec == Init /\ [][SchedNext]_vars

\* The requests of a node that verifies messages while its round timeouts are
\* running: Round timeouts with any deadline, and messages to verify.
TimedWorkload ==
    {request \in InternalRequest :
        \/ request.type = "Timeout" /\ request.timeout = "Round"
        \/ request.type = "VerifyMessage" /\ request.raw = SignedBytes}

\* The consensus core sends a request of that workload on internal_requests_tx.
SendWorkRequest ==
    /\ producer.alive
    /\ producer.sent < MaxRequests
    /\ loop.state = "running"
    /\ \E request \in TimedWorkload :
         internal_requests' = Append(internal_requests, request)
    /\ producer' = [producer EXCEPT !.sent = @ + 1]
    /\ UNCHANGED <<loop, handled, internal_events, receiver_open, now>>
    /\ UNCHANGED <<dvars, rvars, bvars>>

FairTasksNext ==
    \/ SendWorkRequest
    \/ DropSenders
    \/ CloseReceiver
    \/ Tick
    \/ LoopHandleRequest
    \/ LoopEnd
    \/ RunVerifyTask
    \/ FireTimer

\* A burst of network messages while round timeouts are set: messages to
\* verify, and Round timeouts whose deadline has passed already or is the
\* latest the clock gets to.
BurstWorkload ==
    {request \in TimedWorkload :
        request.type = "Timeout" => request.time \in {0, MaxTime}}

\* The consensus core sends a request of the burst on internal_requests_tx.
SendBurstRequest ==
    /\ producer.alive
    /\ producer.sent < MaxBurst
    /\ loop.state = "running"
    /\ \E request \in BurstWorkload :
         internal_requests' = Append(internal_requests, request)
    /\ producer' = [producer EXCEPT !.sent = @ + 1]
    /\ UNCHANGED <<loop, handled, internal_events, receiver_open, now>>
    /\ UNCHANGED <<dvars, rvars, bvars>>

FairSchedNext ==
    \/ SendBurstRequest
    \/ DropSenders
    \/ CloseReceiver
    \/ Tick
    \/ LoopHandleRequest
    \/ LoopEnd
    \/ RunVerifyTask
    \/ FireTimer

\* The scheduler under a burst, with time that passes and timer tasks
\* that the executor gets to once their delay has run out. Nothing is assumed of
\* the verification tasks: they may be as slow as they like.
FairSchedSpec ==
    /\ Init /\ [][FairSchedNext]_vars
    /\ WF_vars(Tick)
    /\ WF_vars(FireTimer)

\* ------------------------------------------------------------ properties

Registered(self, runtime_id) == runtime_id \in DOMAIN self.runtimes

IsPrefix(s, t) == Len(s) <= Len(t) /\ s = SubSeq(t, 1, Len(s))

SameRegistry(d1, d2) ==
    d1.runtimes = d2.runtimes /\ d1.runtime_lookup = d2.runtime_lookup

\* The runtime calls the dispatcher makes for a list of Actions: one per Action
\* whose runtime is registered, in the order of the list.
RECURSIVE ActionCalls(_, _)
ActionCalls(self, actions) ==
    IF actions = <<>> THEN <<>>
    ELSE LET a == Head(actions)
         IN (IF Registered(self, a.artifact.runtime_id)
             THEN <<Call(a.artifact.runtime_id,
                         IF a.type = "StartDeploy" THEN "start_deploy"
                         ELSE "init_service")>>
             ELSE <<>>) \o ActionCalls(self, Tail(actions))

\* The instance mappings a list of successfully applied Actions records.
RECURSIVE RecordedBy(_, _)
RecordedBy(lookup, actions) ==
    IF actions = <<>> THEN lookup
    ELSE LET a == Head(actions)
         IN RecordedBy(IF a.type = "InitService"
                       THEN Insert(lookup, a.constructor.instance_id,
                                   a.artifact.runtime_id)
                       ELSE lookup,
                       Tail(actions))

\* C1: start_deploy, check_deploy_status and init_service for an artifact whose
\* runtime_id is no key of the registry return WrongRuntime (DeployError's for
\* the first two, InitError's for the third), invoke no runtime and leave
\* runtimes and runtime_lookup as they were.
C1_UnregisteredIsWrongRuntime ==
    (/\ last.op \in {"start_deploy", "check_deploy_status", "init_service"}
     /\ ~Registered(last.before.self, last.runtime_id))
    => (/\ last.result = IF last.op = "init_service"
                         THEN InitWrongRuntime ELSE DeployWrongRuntime
        /\ last.calls = <<>>
        /\ SameRegistry(dispatcher, last.before.self))

C1_Witness ==
    /\ last.op = "init_service"
    /\ ~Registered(last.before.self, last.runtime_id)
    /\ last.result = InitWrongRuntime
    /\ dispatcher.runtime_lookup # EmptyMap

\* C2: once init_service has returned Ok for an instance id, an execute call
\* addressed to that id invokes execute on the runtime the instance was last
\* successfully initialised with, and on no other runtime.
C2_ExecuteRoutedToInitRuntime ==
    (last.op = "execute" /\ last.instance_id \in DOMAIN last.before.owner)
    => (/\ Registered(last.before.self, last.before.owner[last.instance_id])
        /\ SelectSeq(last.calls, LAMBDA c : c.method = "execute")
             = <<Call(last.before.owner[last.instance_id], "execute")>>)

C2_Witness ==
    /\ last.op = "execute"
    /\ last.instance_id \in DOMAIN last.before.owner
    /\ last.applied = <<>>
    /\ last.before.owner[last.instance_id] = JavaRuntimeId
    /\ Registered(dispatcher, RustRuntimeId)
    /\ last.calls = <<Call(JavaRuntimeId, "execute")>>

\* C3 as stated: execute addressed to an instance id absent from runtime_lookup
\* returns the WRONG_RUNTIME error, invokes no runtime, applies no pending
\* Action and changes nothing; and that error differs from any error the
\* owning runtime of a registered instance returns.
C3_AbsentInstanceDistinctError ==
    last.op = "execute"
    => IF last.instance_id \notin DOMAIN last.before.self.runtime_lookup
       THEN /\ last.result = WrongRuntimeError
            /\ last.calls = <<>>
            /\ last.applied = <<>>
            /\ context = last.before.ctx
            /\ SameRegistry(dispatcher, last.before.self)
       ELSE last.returned # Ok => last.result # WrongRuntimeError

\* C3, the part of it that holds: execute addressed to an instance id absent
\* from runtime_lookup returns the WRONG_RUNTIME error, invokes no runtime,
\* applies no pending Action and changes nothing. For a registered instance the
\* owning runtime is invoked and an error it returns is passed on as it is (so
\* the two cases differ by the error only when the runtime does not return
\* that same error).
C3_AbsentInstanceIsWrongRuntime ==
    last.op = "execute"
    => IF last.instance_id \notin DOMAIN last.before.self.runtime_lookup
       THEN /\ last.result = WrongRuntimeError
            /\ last.calls = <<>>
            /\ last.applied = <<>>
            /\ context = last.before.ctx
            /\ SameRegistry(dispatcher, last.before.self)
       ELSE /\ last.calls # <<>>
            /\ last.calls[1] =
                 Call(last.before.self.runtime_lookup[last.instance_id], "execute")
            /\ last.returned # Ok => last.result = last.returned

C3_Witness ==
    /\ last.op = "execute"
    /\ last.instance_id \notin DOMAIN dispatcher.runtime_lookup
    /\ last.result = WrongRuntimeError
    /\ context # <<>>
    /\ Registered(dispatcher, JavaRuntimeId)
    /\ dispatcher.runtime_lookup # EmptyMap

\* C4: when the owning runtime's execute succeeds, the drained queue (what the
\* context held, then what the call enqueued) is applied in queue order: the
\* Actions applied are a prefix of it, the runtime calls made for them follow
\* in that order, and when execute returns Ok every one of them was applied.
C4_ActionsAppliedInFifoOrder ==
    (last.op = "execute" /\ last.returned = Ok)
    => (/\ last.batch = last.before.ctx \o last.enqueued
        /\ IsPrefix(last.applied, last.batch)
        /\ Tail(last.calls) = ActionCalls(last.before.self, last.applied)
        /\ last.result = Ok
             => /\ last.applied = last.batch
                /\ dispatcher.runtime_lookup =
                     RecordedBy(last.before.self.runtime_lookup, last.batch))

C4_Witness ==
    /\ last.op = "execute"
    /\ last.result = Ok
    /\ Len(last.enqueued) = 2
    /\ last.applied = last.enqueued
    /\ last.applied[1].type = "InitService"
    /\ last.applied[2].type = "StartDeploy"
    /\ last.applied[1].artifact # last.applied[2].artifact
    /\ Len(last.calls) = 3

\* C5: when applying the k-th Action fails, execute returns that Action's
\* error, no Action after position k is applied or causes a runtime call, and
\* runtime_lookup holds what it held before plus the mappings recorded by
\* Actions 1..k-1.
C5_FailingActionStopsTheRest ==
    (last.op = "execute" /\ last.returned = Ok /\ last.result # Ok)
    => LET k == Len(last.applied)
           failed == last.batch[k]
       IN /\ k >= 1
          /\ last.applied = SubSeq(last.batch, 1, k)
          /\ Len(last.results) = k
          /\ \A j \in 1..(k - 1) : last.results[j] = Ok
          /\ last.result = last.results[k]
          /\ last.result \in
               (IF failed.type = "StartDeploy"
                THEN {FromDeployError(e) : e \in DeployError}
                ELSE {FromInitError(e) : e \in InitError})
          /\ ~Registered(last.before.self, failed.artifact.runtime_id)
               => last.result \in {FromDeployError(DeployWrongRuntime),
                                    FromInitError(InitWrongRuntime)}
          /\ Tail(last.calls) = ActionCalls(last.before.self, last.applied)
          /\ dispatcher.runtime_lookup =
               RecordedBy(last.before.self.runtime_lookup,
                          SubSeq(last.batch, 1, k - 1))

C5_Witness ==
    /\ last.op = "execute"
    /\ last.returned = Ok
    /\ last.result # Ok
    /\ Len(last.batch) = 2
    /\ Len(last.applied) = 2
    /\ last.applied[1].type = "InitService"
    /\ last.applied[1].constructor.instance_id # last.instance_id
    /\ last.applied[1].constructor.instance_id \in DOMAIN dispatcher.runtime_lookup
    /\ dispatcher.runtime_lookup[last.applied[1].constructor.instance_id]
         = last.applied[1].artifact.runtime_id
    /\ last.applied[1].artifact.runtime_id = RustRuntimeId
    /\ last.result = FromDeployError(DeployWrongRuntime)

\* C6: when the addressed runtime's init_service fails, Dispatcher::init_service
\* returns that error and runtime_lookup is unchanged; when it returns Ok,
\* runtime_lookup maps constructor.instance_id to artifact.runtime_id and is
\* otherwise as before.
C6_MappingRecordedOnlyOnSuccess ==
    (last.op = "init_service" /\ Registered(last.before.self, last.runtime_id))
    => (/\ last.result = last.returned
        /\ last.calls = <<Call(last.runtime_id, "init_service")>>
        /\ dispatcher.runtimes = last.before.self.runtimes
        /\ IF last.result = Ok
           THEN dispatcher.runtime_lookup =
                  Insert(last.before.self.runtime_lookup, last.instance_id,
                         last.runtime_id)
           ELSE dispatcher.runtime_lookup = last.before.self.runtime_lookup)

C6_Witness ==
    /\ last.op = "init_service"
    /\ Registered(last.before.self, last.runtime_id)
    /\ last.result \in InitError
    /\ last.instance_id \in DOMAIN dispatcher.runtime_lookup
    /\ dispatcher.runtime_lookup[last.instance_id] # last.runtime_id

\* C7: in a Dispatcher returned by finalize, whatever calls were made on it,
\* every instance id of runtime_lookup maps to a key of runtimes.
C7_LookupRefersToRegisteredRuntimes ==
    phase = "ready"
      => \A id \in DOMAIN dispatcher.runtime_lookup :
           Registered(dispatcher, dispatcher.runtime_lookup[id])

C7_Witness ==
    /\ phase = "ready"
    /\ Registered(dispatcher, RustRuntimeId)
    /\ dispatcher.runtimes[RustRuntimeId] = BuiltinRuntime
    /\ last.op = "execute"
    /\ last.applied # <<>>
    /\ DOMAIN dispatcher.runtime_lookup = InstanceIds
    /\ dispatcher.runtime_lookup[RUST_SERVICE_ID] = JavaRuntimeId
    /\ dispatcher.runtime_lookup[JAVA_SERVICE_ID] = RustRuntimeId

\* The prior state of an execute call was the same on every node: equal
\* registries, equal runtime_lookup, equal context contents.
SamePriorState ==
    \A i, j \in ReplicaIds :
        /\ SameRegistry(replies[i].prior.self, replies[j].prior.self)
        /\ replies[i].prior.ctx = replies[j].prior.ctx

\* C8: two dispatchers with equal registries and equal runtime_lookup, given
\* the same context contents and call and runtimes that behave alike, return
\* the same result from execute (Ok, or the same error), apply the same
\* sequence of Actions and end with equal runtime_lookup, whatever becomes of
\* each node's RestartApi requests and however long a node waits on them.
C8_ExecuteDeterministicAcrossReplicas ==
    ((\A i \in ReplicaIds : replies[i].op = "execute") /\ SamePriorState)
    => \A i, j \in ReplicaIds :
         /\ replies[i].result = replies[j].result
         /\ replies[i].applied = replies[j].applied
         /\ replicas[i].self.runtime_lookup = replicas[j].self.runtime_lookup

\* Every node has applied the same two InitService Actions for one instance,
\* the second of which decides its runtime; one node was held up in a send on
\* the way and another was not, and they got different numbers of requests
\* through.
C8_Witness ==
    /\ \A i \in ReplicaIds : replies[i].op = "execute" /\ replies[i].result = Ok
    /\ SamePriorState
    /\ \E i, j \in ReplicaIds :
         /\ replies[i].waited /\ ~replies[j].waited
         /\ replies[i].sent # replies[j].sent
    /\ \E i \in ReplicaIds :
         /\ Len(replies[i].applied) = 2
         /\ \A k \in 1..2 :
              /\ replies[i].applied[k].type = "InitService"
              /\ replies[i].applied[k].constructor.instance_id = JAVA_SERVICE_ID
         /\ replies[i].applied[1].artifact.runtime_id = RustRuntimeId
         /\ replies[i].applied[2].artifact.runtime_id = JavaRuntimeId
         /\ replicas[i].self.runtime_lookup[JAVA_SERVICE_ID] = JavaRuntimeId

\* The positions of the events on the channel that are for request i.
EventsOf(events, i) == {k \in DOMAIN events : events[k].req = i}

\* The bytes are those of a validly signed message: they decode, and the
\* signature is the author's over the payload.
ValidlySigned(raw) ==
    /\ Len(raw) = 3
    /\ raw[3] = Sign(raw[1], raw[2])

\* The message decoded from the bytes of a validly signed Status message.
Decoded(raw) ==
    [kind |-> "Status",
     verified |-> [message |-> "Status", author |-> raw[1],
                   raw |-> [author |-> raw[1], payload |-> raw[2],
                            signature |-> raw[3]]]]

\* C9: for a VerifyMessage request with the bytes of a validly signed message,
\* picked up while the event receiver is open, the channel never holds more
\* than one event; once its verification task has run with the receiver still
\* open it holds exactly one, and that event is MessageVerified with the
\* message decoded from the bytes.
C9_ValidMessageYieldsOneEvent ==
    \A i \in DOMAIN handled :
        (/\ handled[i].request.type = "VerifyMessage"
         /\ ValidlySigned(handled[i].request.raw)
         /\ handled[i].outcome = "spawned")
        => LET mine == EventsOf(internal_events, i)
           IN /\ Cardinality(mine) <= 1
              /\ (handled[i].task = "done" /\ receiver_open) => Cardinality(mine) = 1
              /\ \A k \in mine :
                   internal_events[k].event =
                     [type |-> "MessageVerified",
                      msg |-> Decoded(handled[i].request.raw)]

C9_Witness ==
    /\ Len(handled) = 2
    /\ handled[2].request.type = "VerifyMessage"
    /\ ValidlySigned(handled[2].request.raw)
    /\ handled[2].task = "done"
    /\ handled[1].task = "pending"
    /\ receiver_open
    /\ Len(internal_events) = 1
    /\ internal_events[1].req = 2
    /\ internal_events[1].event.type = "MessageVerified"

\* A VerifyMessage request whose bytes do not decode or do not verify.
InvalidVerify(picked) ==
    /\ picked.request.type = "VerifyMessage"
    /\ ~ValidlySigned(picked.request.raw)

\* C10: a VerifyMessage request whose bytes fail decoding or signature
\* verification never has an event on the channel, and neither picking it up
\* with the receiver open nor the run of its verification task ends the loop
\* or touches the queued requests: the loop goes on with what follows.
C10_InvalidMessageYieldsNoEvent ==
    [][/\ \A k \in DOMAIN internal_events' :
            ~InvalidVerify(handled'[internal_events'[k].req])
       /\ \A i \in DOMAIN handled' :
            (/\ InvalidVerify(handled'[i])
             /\ handled'[i].outcome = "spawned"
             /\ (i \notin DOMAIN handled \/ handled[i].task # handled'[i].task))
            => /\ loop' = loop
               /\ internal_events' = internal_events
               /\ i \in DOMAIN handled => internal_requests' = internal_requests]_vars

C10_Witness ==
    /\ Len(handled) = 2
    /\ InvalidVerify(handled[1])
    /\ handled[1].request.raw = ZeroSignatureBytes
    /\ handled[1].task = "done"
    /\ handled[2].outcome = "spawned"
    /\ handled[2].task = "done"
    /\ loop.state = "running"
    /\ receiver_open
    /\ Len(internal_events) = 1
    /\ internal_events[1].req = 2

\* The events that a step puts on the channel.
NewEvents == {k \in DOMAIN internal_events' : k \notin DOMAIN internal_events}

\* The requests that a step of the loop picks up.
NewlyHandled == {i \in DOMAIN handled' : i \notin DOMAIN handled}

\* C11: a Timeout(deadline, token) request for which the loop spawns its timer
\* at time now gets the delay max(0, deadline - now): 0 when the deadline is at
\* or before now, never negative; and a Timeout event put on the channel
\* carries the token of its request and is not put there before the deadline.
C11_TimerDelayIsClampedToZero ==
    [][/\ \A i \in NewlyHandled :
            handled'[i].kind = "timer"
            => LET deadline == handled'[i].request.time
                   delay == handled'[i].wake - now
               IN /\ delay >= 0
                  /\ deadline <= now => delay = 0
                  /\ deadline > now => delay = deadline - now
       /\ \A k \in NewEvents :
            LET request == handled[internal_events'[k].req].request
            IN request.type = "Timeout"
               => /\ internal_events'[k].event =
                       [type |-> "Timeout", timeout |-> request.timeout]
                  /\ now >= request.time]_vars

C11_Witness ==
    /\ Len(handled) = 2
    /\ handled[1].kind = "timer" /\ handled[2].kind = "timer"
    /\ handled[1].request.time = MaxTime
    /\ handled[2].request.time = 0
    /\ handled[2].wake = MaxTime
    /\ handled[1].request.timeout # handled[2].request.timeout
    /\ handled[2].task = "done"
    /\ \E k \in DOMAIN internal_events :
         /\ internal_events[k].req = 2
         /\ internal_events[k].event = TimeoutEvent(handled[2].request.timeout)

\* C12: when the receiver of events is closed as the loop picks up a request,
\* the loop ends there: no task is spawned for the request, no event is put on
\* the channel, run resolves to Ok; and a loop that has ended picks up no
\* request, so those queued behind stay unhandled. Every event on the channel
\* is for a request whose task was spawned.
C12_ClosedReceiverEndsTheLoop ==
    [][/\ \A i \in NewlyHandled :
            ~receiver_open
            => /\ handled'[i].outcome = "receiver_closed"
               /\ handled'[i].kind = "none"
               /\ handled'[i].task = "none"
               /\ loop'.state = "finished"
               /\ loop'.run = Ok
               /\ internal_events' = internal_events
       /\ loop.state = "finished"
            => /\ NewlyHandled = {}
               /\ internal_requests' = internal_requests
               /\ loop' = loop
       /\ \A k \in NewEvents :
            handled[internal_events'[k].req].outcome = "spawned"]_vars

C12_Witness ==
    /\ ~receiver_open
    /\ Len(handled) = 1
    /\ handled[1].outcome = "receiver_closed"
    /\ handled[1].request.type = "Timeout"
    /\ internal_requests # <<>>
    /\ Head(internal_requests).type = "VerifyMessage"
    /\ loop.state = "finished"
    /\ loop.run = Ok
    /\ internal_events = <<>>

\* The loop has handled a Shutdown request: the task forwarding the Shutdown
\* event was spawned.
ShutdownHandled ==
    \E i \in DOMAIN handled :
        handled[i].request.type = "Shutdown" /\ handled[i].outcome = "spawned"

\* C13 as stated: once the loop has handled a Shutdown request it is
\* terminated: it picks up no further request, so nothing queued after
\* Shutdown spawns a task or yields an event.
C13_ShutdownEndsTheLoop ==
    [][ShutdownHandled
       => /\ NewlyHandled = {}
          /\ \A k \in NewEvents :
               \E j \in DOMAIN handled :
                   /\ handled[j].request.type = "Shutdown"
                   /\ internal_events'[k].req <= j]_vars

\* C14 as stated: when the executor rejects the task for a Timeout, JumpToRound
\* or Shutdown request, only that request's event is lost: the loop keeps
\* running, so that later requests are still handled.
C14_SpawnFailureKeepsTheLoop ==
    [][\A i \in NewlyHandled :
         handled'[i].outcome = "spawn_failed"
         => /\ handled'[i].task = "none"
            /\ loop'.state = "running"]_vars

\* The hooks a fan-out in registration order would invoke.
InRegistrationOrder(b, hook) ==
    [i \in 1..Len(builders[b].registered) |-> Call(builders[b].registered[i], hook)]

\* C15 as stated: before_commit and after_commit invoke the hook of every
\* registered runtime exactly once, in the order in which the runtimes were
\* registered with the dispatcher.
C15_HooksInRegistrationOrder ==
    observed.op \in {"before_commit", "after_commit"}
    => observed.calls = InRegistrationOrder(observed.on, observed.op)

RECURSIVE SumLen(_, _)
SumLen(snapshot, ids) ==
    IF ids = {} THEN 0
    ELSE LET id == CHOOSE x \in ids : TRUE
         IN Len(snapshot[id]) + SumLen(snapshot, ids \ {id})

\* C16 as stated: state_hashes returns every runtime's list exactly once, with
\* nothing merged or removed, and in an order that the registry's content
\* determines: two dispatchers holding the same (runtime id, runtime) pairs
\* return the same sequence for the same snapshot, however they were filled.
C16_StateHashesDeterministic ==
    observed.op = "state_hashes"
    => /\ \A b \in BuilderIds :
             Len(observed.results[b])
               = SumLen(observed.snapshot, DOMAIN builders[b].self.runtimes)
       /\ builders[1].self.runtimes = builders[2].self.runtimes
          => observed.results[1] = observed.results[2]

\* C18: a finalized dispatcher holds the native runtime under its id and, under
\* every other id, the runtime the last with_runtime call for that id gave; no
\* other id is registered, and a runtime supplied under the native id is gone.
C18_FinalizedRegistry ==
    \A b \in BuilderIds :
        builders[b].phase = "ready"
        => LET runtimes == builders[b].self.runtimes
               supplied == builders[b].supplied
           IN /\ DOMAIN runtimes = DOMAIN supplied \cup {RustRuntimeId}
              /\ runtimes[RustRuntimeId] = BuiltinRuntime
              /\ \A id \in DOMAIN supplied \ {RustRuntimeId} :
                    runtimes[id] = supplied[id].runtime

\* A finalized dispatcher whose builder was given a runtime under the native id
\* and two different runtimes, one after the other, under another id.
C18_Witness ==
    \E b \in BuilderIds :
        /\ builders[b].phase = "ready"
        /\ RustRuntimeId \in DOMAIN builders[b].supplied
        /\ builders[b].supplied[RustRuntimeId].runtime \in SampleRuntimes
        /\ JavaRuntimeId \in DOMAIN builders[b].supplied
        /\ builders[b].supplied[JavaRuntimeId].replaced

\* A direct init_service call whose RestartApi request did not get through.
RestartApiLost == last.op = "init_service" /\ last.restarts = 1 /\ last.sent = 0

\* C17: the RestartApi request is best-effort: when it does not get through,
\* init_service still returns the runtime's result, the mapping is recorded if
\* that result is a success and left alone otherwise, and the dispatcher is as
\* ready for its next call as after a request that got through.
C17_RestartApiIsBestEffort ==
    RestartApiLost
    => /\ last.result = last.returned
       /\ last.calls = <<Call(last.runtime_id, "init_service")>>
       /\ last.result = Ok
          => /\ last.instance_id \in DOMAIN dispatcher.runtime_lookup
             /\ dispatcher.runtime_lookup[last.instance_id] = last.runtime_id
       /\ last.result # Ok
          => /\ last.instance_id \in DOMAIN owner
                => /\ last.instance_id \in DOMAIN dispatcher.runtime_lookup
                   /\ dispatcher.runtime_lookup[last.instance_id]
                        = owner[last.instance_id]
       /\ phase = "ready"
       /\ ENABLED TakeResult

\* A successful init_service whose RestartApi request was lost.
C17_Witness ==
    /\ RestartApiLost
    /\ last.result = Ok
    /\ last.instance_id \in DOMAIN dispatcher.runtime_lookup

\* The instances in the table that no init_service call has put there: the
\* ones with_builtin_service registered; and those of them there were when the
\* last call started.
BuiltinInstances == DOMAIN dispatcher.runtime_lookup \ DOMAIN owner

BuiltinInstancesBefore ==
    DOMAIN last.before.self.runtime_lookup \ DOMAIN last.before.owner

\* C19: with_builtin_service only records instance id -> native runtime id: while
\* the dispatcher is being built no runtime has been called and no RestartApi
\* request made; once it is finalized, an execute call for such an instance goes
\* to the native runtime.
C19_BuiltinServiceIsOnlyRecorded ==
    /\ phase = "building"
       => /\ last.calls = <<>> /\ last.restarts = 0 /\ last.op = "none"
          /\ \A instance_id \in DOMAIN dispatcher.runtime_lookup :
                dispatcher.runtime_lookup[instance_id] = RustRuntimeId
    /\ last.op = "execute" /\ last.instance_id \in BuiltinInstancesBefore
       => /\ phase = "ready"
          /\ last.calls # <<>>
          /\ last.calls[1] = Call(RustRuntimeId, "execute")

\* An execute call for an instance only with_builtin_service registered, which
\* the native runtime has carried out.
C19_Witness ==
    /\ last.op = "execute"
    /\ last.instance_id \in BuiltinInstancesBefore
    /\ dispatcher.runtimes[RustRuntimeId] = BuiltinRuntime
    /\ last.calls = <<Call(RustRuntimeId, "execute")>>
    /\ last.result = Ok

\* The last call reached a runtime.
ReachedRuntime == last.calls # <<>>

\* C20: for a registered target the dispatcher hands back the addressed
\* runtime's own result: start_deploy, check_deploy_status and init_service
\* return what the runtime under artifact.runtime_id returned; an execute call
\* whose owning runtime fails returns that error unchanged, applies no Action
\* and calls no other runtime; with nothing queued, execute succeeds exactly
\* when the owning runtime accepts the call.
C20_RuntimeResultVerbatim ==
    /\ last.op \in {"start_deploy", "check_deploy_status", "init_service"}
       /\ ReachedRuntime
       => /\ last.result = last.returned
          /\ last.calls = <<Call(last.runtime_id, last.op)>>
          /\ last.runtime_id \in DOMAIN last.before.self.runtimes
    /\ last.op = "execute" /\ ReachedRuntime /\ last.returned # Ok
       => /\ last.result = last.returned
          /\ last.batch = <<>> /\ last.applied = <<>> /\ last.results = <<>>
          /\ last.restarts = 0
          /\ last.calls
               = <<Call(last.before.self.runtime_lookup[last.instance_id],
                        "execute")>>
          /\ SameRegistry(dispatcher, last.before.self)
    /\ last.op = "execute" /\ ReachedRuntime /\ last.batch = <<>>
       => /\ last.result = last.returned
          /\ last.result = Ok <=> last.returned = Ok
          /\ Len(last.calls) = 1

\* An execute call that the owning runtime has failed after it had queued an
\* Action: the error is what the caller got, and the Action was not applied.
C20_Witness ==
    /\ last.op = "execute"
    /\ last.returned = SampleError
    /\ last.result = SampleError
    /\ last.enqueued # <<>>
    /\ last.applied = <<>>

\* C21 as stated: when an execute call returns, with success or with an error,
\* the context's queue of pending Actions is empty, so that no later execute
\* call on the same context applies an Action this call left behind.
C21_QueueEmptyAfterExecute ==
    last.op = "execute" => context = <<>>

\* The call that has just returned initialised a service with success, directly
\* or through an InitService Action it applied.
InitialisedService ==
    \/ last.op = "init_service" /\ last.result = Ok
    \/ /\ last.op = "execute"
       /\ \E k \in DOMAIN last.applied :
             last.applied[k].type = "InitService" /\ last.results[k] = Ok

\* C22: runtime_lookup only grows, and it changes only when a service is
\* initialised with success: start_deploy, check_deploy_status, a failed
\* init_service, an execute that applies no InitService Action and the commit
\* hooks leave it as it is, a successful init_service adds its one mapping; and
\* none of these calls changes the registered runtimes. The same holds of a
\* call that has not returned yet.
C22_LookupChangesOnlyOnInit ==
    /\ last.op # "none"
       => /\ dispatcher.runtimes = last.before.self.runtimes
          /\ \A id \in DOMAIN last.before.self.runtime_lookup :
                id \in DOMAIN dispatcher.runtime_lookup
          /\ dispatcher.runtime_lookup # last.before.self.runtime_lookup
             => InitialisedService
          /\ last.op = "init_service" /\ last.result = Ok
             => dispatcher.runtime_lookup
                  = Insert(last.before.self.runtime_lookup, last.instance_id,
                           last.runtime_id)
    /\ pending.op # "none"
       => /\ dispatcher.runtimes = pending.call.before.self.runtimes
          /\ \A id \in DOMAIN pending.call.before.self.runtime_lookup :
                id \in DOMAIN dispatcher.runtime_lookup

\* A failed init_service for an instance that is not in the table, next to an
\* instance that is: the table has kept the one and not taken the other.
C22_Witness ==
    /\ last.op = "init_service"
    /\ ReachedRuntime
    /\ last.result # Ok
    /\ last.instance_id \notin DOMAIN dispatcher.runtime_lookup
    /\ dispatcher.runtime_lookup # EmptyMap

\* How many of the runtime calls of the last dispatcher call were init_service.
InitCalls == Cardinality({k \in DOMAIN last.calls : last.calls[k].method = "init_service"})

\* C23: an init_service call that reaches a registered runtime attempts exactly
\* one RestartApi request, whether the runtime's init succeeded or failed, and on
\* success after the mapping has been recorded (it is there while the call
\* waits for the request to be taken); a call rejected with WrongRuntime
\* attempts none; every InitService Action applied inside execute makes the same
\* single attempt.
C23_OneRestartPerInit ==
    /\ last.op = "init_service" /\ ReachedRuntime
       => /\ last.restarts = 1
          /\ Cardinality({k \in DOMAIN last.steps : last.steps[k] = "RestartApi"}) = 1
          /\ last.steps[Len(last.steps)] = "RestartApi"
          /\ last.result = Ok
             => /\ last.steps[Len(last.steps) - 1] = "notify_service_started"
                /\ dispatcher.runtime_lookup[last.instance_id] = last.runtime_id
    /\ last.op = "init_service" /\ ~ReachedRuntime
       => /\ last.result = InitWrongRuntime
          /\ last.restarts = 0
          /\ last.steps = <<>>
    /\ last.op = "execute" => last.restarts = InitCalls
    /\ last.op \notin {"init_service", "execute"} => last.restarts = 0
    /\ pending.op = "init_service"
       => /\ pending.call.restarts = 1
          /\ pending.call.result = Ok
             => /\ pending.call.instance_id \in DOMAIN dispatcher.runtime_lookup
                /\ dispatcher.runtime_lookup[pending.call.instance_id]
                     = pending.call.runtime_id

\* An execute call that has applied an InitService Action whose runtime call
\* failed: the one RestartApi request was attempted all the same.
C23_Witness ==
    /\ last.op = "execute"
    /\ last.applied # <<>>
    /\ last.applied[Len(last.applied)].type = "InitService"
    /\ last.results[Len(last.results)] = FromInitError(<<"InitError", "InitFailed">>)
    /\ last.restarts = 1

\* The events on the channel that were sent for the i-th handled request.
EventsFor(i) == {k \in DOMAIN internal_events : internal_events[k].req = i}

\* C24: timers are independent. While the receiver of events stays open, every
\* timer task that has run has put exactly one Timeout event on the channel,
\* with its own request's token, whatever the other timers' tokens and
\* deadlines; a timer that has not fired yet has put none.
C24_TimersAreIndependent ==
    \A i \in DOMAIN handled :
        handled[i].kind = "timer"
        => /\ handled[i].task = "pending" => EventsFor(i) = {}
           /\ handled[i].task = "done" /\ receiver_open
              => /\ Cardinality(EventsFor(i)) = 1
                 /\ \A k \in EventsFor(i) :
                       internal_events[k].event
                         = TimeoutEvent(handled[i].request.timeout)

\* Two Timeout requests with the same token, the second with the earlier
\* deadline: both timers have fired and there are two Timeout events.
C24_Witness ==
    /\ receiver_open
    /\ Len(handled) = 2
    /\ \A i \in {1, 2} : handled[i].kind = "timer" /\ handled[i].task = "done"
    /\ handled[1].request.timeout = handled[2].request.timeout
    /\ handled[2].request.time < handled[1].request.time
    /\ Cardinality({k \in DOMAIN internal_events :
                       internal_events[k].event.type = "Timeout"}) = 2

\* The event a JumpToRound or Shutdown request is to be re-emitted as.
Reemitted(request) ==
    IF request.type = "JumpToRound"
    THEN JumpToRoundEvent(request.height, request.round)
    ELSE ShutdownEvent

\* C25: a JumpToRound or Shutdown request handled while the receiver of events is
\* open gets a task that only sends: no timer stands before it, and once it has
\* run there is exactly one event for the request, a JumpToRound event with the
\* request's height and round, or a Shutdown event.
C25_JumpAndShutdownReemitted ==
    \A i \in DOMAIN handled :
        /\ handled[i].request.type \in {"JumpToRound", "Shutdown"}
        /\ handled[i].outcome = "spawned"
        => /\ handled[i].kind = "send"
           /\ handled[i].task = "pending" => EventsFor(i) = {}
           /\ handled[i].task = "done" /\ receiver_open
              => /\ Cardinality(EventsFor(i)) = 1
                 /\ \A k \in EventsFor(i) :
                       internal_events[k].event = Reemitted(handled[i].request)

\* A JumpToRound request and a Shutdown request, both re-emitted, at a time when
\* no timer could have run out.
C25_Witness ==
    /\ receiver_open
    /\ now = 0
    /\ Len(handled) = 2
    /\ handled[1].request.type = "JumpToRound"
    /\ handled[2].request.type = "Shutdown"
    /\ \A i \in {1, 2} : handled[i].task = "done"
    /\ Len(internal_events) = 2

\* The tasks that the step has run to their end.
TasksRun ==
    {i \in DOMAIN handled : handled[i].task = "pending" /\ handled'[i].task # "pending"}

\* C26: a verification, timer or send task that runs after the receiver of
\* events was closed ends as a no-op: it completes, nothing goes on the channel,
\* and the loop, the queued requests and the other tasks are left as they were.
C26_LateTaskIsSilent ==
    [][\A i \in TasksRun :
         ~receiver_open
         => /\ handled'[i] = [handled[i] EXCEPT !.task = "done"]
            /\ internal_events' = internal_events
            /\ loop' = loop
            /\ internal_requests' = internal_requests
            /\ DOMAIN handled' = DOMAIN handled
            /\ \A j \in DOMAIN handled : j # i => handled'[j] = handled[j]]_vars

\* A timer fired after the receiver was closed and left no event; the loop is
\* still running and another task is still to run.
C26_Witness ==
    /\ ~receiver_open
    /\ loop.state = "running"
    /\ \E i \in DOMAIN handled :
         /\ handled[i].kind = "timer"
         /\ handled[i].task = "done"
         /\ EventsFor(i) = {}
    /\ \E j \in DOMAIN handled : handled[j].task = "pending"

\* The event the task of a handled request may send, as a set: none for bytes
\* that do not decode or verify.
EventOfRequest(request) ==
    IF request.type = "VerifyMessage"
    THEN {VerifyMessage(request.raw)[n] : n \in DOMAIN VerifyMessage(request.raw)}
    ELSE IF request.type = "Timeout" THEN {TimeoutEvent(request.timeout)}
    ELSE {Reemitted(request)}

\* C27: every request is handled at most once and yields at most one event, and
\* every event on the channel is the event of a request handled before it, of its
\* kind and with its payload, no two events being for the same request.
C27_NoDuplicateNoSpuriousEvent ==
    /\ Len(handled) + Len(internal_requests) = producer.sent
    /\ \A i \in DOMAIN handled : Cardinality(EventsFor(i)) <= 1
    /\ \A k \in DOMAIN internal_events :
          /\ internal_events[k].req \in DOMAIN handled
          /\ handled[internal_events[k].req].task = "done"
          /\ internal_events[k].event
               \in EventOfRequest(handled[internal_events[k].req].request)
    /\ Len(internal_events) <= Len(handled)

\* Two requests with the same payload, each with an event of its own.
C27_Witness ==
    /\ Len(handled) = 2
    /\ handled[1].request = handled[2].request
    /\ Len(internal_events) = 2
    /\ internal_events[1].event = internal_events[2].event
    /\ internal_events[1].req # internal_events[2].req

\* C28 as stated: the request loop ends with the closure's error only when the
\* receiver of events has hung up, nothing else makes the closure return an
\* error; and however the loop ends, run resolves with success.
C28_LoopErrorOnlyOnHangUp ==
    /\ loop.cycle = <<"Err">>
       => /\ handled # <<>>
          /\ handled[Len(handled)].outcome = "receiver_closed"
          /\ ~receiver_open
    /\ loop.state = "finished" => loop.run = Ok

\* C29: with the receiver of events open, every Timeout request the loop has
\* handled (its timer spawned) yields its Timeout event in the end, whatever
\* verification work was spawned before or after it and whether or not that
\* work is ever done.
C29_TimersAreNotStarved ==
    \A i \in 1..MaxBurst :
        (i \in DOMAIN handled /\ handled[i].kind = "timer")
        ~> (\/ ~receiver_open
            \/ /\ i \in DOMAIN handled
               /\ handled[i].kind = "timer"
               /\ \E k \in EventsFor(i) :
                     internal_events[k].event
                       = TimeoutEvent(handled[i].request.timeout))

\* A timer spawned between two verification tasks has sent its event while
\* both of them, the one spawned before it and the one spawned after it, are
\* still waiting to run.
C29_Witness ==
    /\ receiver_open
    /\ \E j, i, m \in DOMAIN handled :
         /\ j < i /\ i < m
         /\ handled[j].kind = "verify" /\ handled[j].task = "pending"
         /\ handled[m].kind = "verify" /\ handled[m].task = "pending"
         /\ handled[i].kind = "timer" /\ handled[i].task = "done"
         /\ \E k \in EventsFor(i) :
               internal_events[k].event
                 = TimeoutEvent(handled[i].request.timeout)

\* The Actions a runtime's init_service may append to the context.
Appendable == UNION {{enq[k] : k \in DOMAIN enq} : enq \in InitEnqueues}

\* C30: the batch an execute call applies is what the queue held when it was
\* drained: the Actions applied are a prefix of that batch, and an Action appended
\* to the context while the batch was applied is still in the context when the
\* call returns, not applied.
C30_BatchFixedAtDrain ==
    last.op = "execute" /\ last.returned = Ok
    => /\ IsPrefix(last.applied, last.batch)
       /\ Len(last.calls) <= 1 + Len(last.batch)
       /\ Len(last.results) = Len(last.applied)
       /\ Len(context) <= InitCalls
       /\ \A k \in DOMAIN context : context[k] \in Appendable

\* An execute call that has applied its whole batch, an InitService Action in it,
\* and returns with the Action that init_service appended still in the context.
C30_Witness ==
    /\ last.op = "execute"
    /\ last.result = Ok
    /\ last.batch # <<>>
    /\ last.applied = last.batch
    /\ InitCalls >= 1
    /\ context # <<>>

\* The scheduler under the timed workload on an executor that lives on after
\* run has completed and gets to every task it was given: time passes, timers
\* fire once their delay has run out, verification tasks are run.
FairTasksSpec ==
    /\ Init /\ [][FairTasksNext]_vars
    /\ WF_vars(Tick)
    /\ WF_vars(FireTimer)
    /\ WF_vars(RunVerifyTask)

\* The task of the i-th handled request has run and, where the request has an
\* event, that event is on the channel.
Delivered(i) ==
    /\ i \in DOMAIN handled
    /\ handled[i].task = "done"
    /\ \A event \in EventOfRequest(handled[i].request) :
          \E k \in EventsFor(i) : internal_events[k].event = event

\* C31: the loop ends with the stream of requests only when every sender is gone
\* and every request sent has been handled; and the tasks it spawned outlive it:
\* a task that has not run when the loop has ended still runs, and its event is
\* delivered as long as the receiver of events is there.
C31_TasksOutliveTheLoop ==
    /\ [](loop.cycle = Ok
            => /\ ~producer.alive
               /\ internal_requests = <<>>
               /\ Len(handled) = producer.sent)
    /\ \A i \in 1..MaxRequests :
          (/\ loop.state = "finished"
           /\ i \in DOMAIN handled
           /\ handled[i].outcome = "spawned"
           /\ handled[i].task # "done")
          ~> (~receiver_open \/ Delivered(i))

\* Every sender is gone and the loop has ended after handling both requests; the
\* verification task of the first has delivered its MessageVerified event, the
\* task of the second has yet to run.
C31_Witness ==
    /\ loop = LoopEnded
    /\ receiver_open
    /\ Len(handled) = 2
    /\ handled[1].kind = "verify" /\ Delivered(1)
    /\ EventsFor(1) # {}
    /\ handled[2].outcome = "spawned" /\ handled[2].task = "pending"

====
